---- MODULE Spec2Model ----
(***************************************************************************)
(* Model of the logbook converter: the FAA formatter (format.py), the      *)
(* logbook.aero formatter (format_logbook_aero.py) and the web application *)
(* (app.py).  The three files carry near-verbatim copies of the same core; *)
(* the model keeps one definition per function and a `variant' parameter   *)
(* ("faa", "aero", "web") wherever the copies differ.                      *)
(*                                                                         *)
(* Numbers.  Hours are Python floats in the source.  The model holds them  *)
(* as integers in units of 1/6000 hour, so that one minute (100 units),    *)
(* 0.01 h (60 units) and 0.1 h (600 units) are all whole.  Every hour      *)
(* value drawn as input has at most two decimals, and every value the      *)
(* program derives from them is the double nearest to a decimal with at    *)
(* most three (halving a double is exact).  round(x, n) is modelled on     *)
(* that double: see RoundTo.                                               *)
(* NaN and negative hour values are not modelled.                          *)
(*                                                                         *)
(* Instants.  All instants are whole minutes counted from 00:00 UTC of the *)
(* flight's DEPT_DATE, except the samples of app.py's loop, which are held *)
(* in seconds.  The external solar library (astral) and the wall clock are *)
(* the environment: their results are drawn nondeterministically.          *)
(***************************************************************************)
EXTENDS Integers, Sequences, FiniteSets, TLC

(***************************** bounds *************************************)
\* clock times of the inputs are NoonHour:00 + k * SlotMinutes, k \in 0..MaxSlot
MaxSlot == 6
SlotMinutes == 5

(************************* program constants ******************************)
TzThreshold == 4
IncrementMinutes == 10
NoonHour == 12
TwilightMinutes == 30

UnitsPerMinute == 10 * 10
UnitsPerCenti == 6 * 10
UnitsPerDeci == 10 * UnitsPerCenti
MinutesPerHour == 6 * 10

Variants == {"faa", "aero", "web"}

Abs(x) == IF x < 0 THEN 0 - x ELSE x
Min(a, b) == IF b < a THEN b ELSE a

(***************************************************************************)
(* round(x, n).  Python rounds the binary double correctly: the result is  *)
(* the nearest multiple of the quantum q, and where the decimal value lies *)
(* half way the double that holds it decides, going up when the double is  *)
(* above the decimal value, down when it is below, and to the even         *)
(* multiple when the double holds the value exactly.                       *)
(*                                                                         *)
(* A half-way value is a whole number n of 1/200 hour.  Its double keeps   *)
(* 53 significant bits of n/25 * 2^-3; what is cut off is decided by the   *)
(* remainder of n * 2^s by 25, s the shift that brings n/25 to 53 bits.    *)
(* 2^s mod 25 has period 20.                                               *)
(***************************************************************************)
UnitsPerHalfCenti == UnitsPerCenti \div 2
MantissaBits == 52
DecimalBase == 25
PowerPeriod == 20

RECURSIVE FloorLog2(_)
FloorLog2(n) == IF n < 2 THEN 0 ELSE 1 + FloorLog2(n \div 2)

\* the k with DecimalBase <= n * 2^k, for 0 < n < DecimalBase
RECURSIVE ScaleUp(_, _)
ScaleUp(n, k) == IF n >= DecimalBase THEN k ELSE ScaleUp(2 * n, k + 1)

RECURSIVE Pow2(_)
Pow2(k) == IF k = 0 THEN 1 ELSE 2 * Pow2(k - 1)

\* 1 when the double nearest to x lies above x, -1 when below, 0 when it is x
DoubleError(x) ==
    LET n == x \div UnitsPerHalfCenti
        e == IF n >= DecimalBase THEN FloorLog2(n \div DecimalBase)
             ELSE 0 - ScaleUp(n, 0)
        shift == MantissaBits - e
        r == ((n % DecimalBase) * (Pow2(shift % PowerPeriod) % DecimalBase))
                 % DecimalBase
    IN  IF n = 0 \/ r = 0 THEN 0
        ELSE IF 2 * r < DecimalBase THEN 0 - 1 ELSE 1

RoundTo(x, q) ==
    LET lo == (x \div q) * q
        r == x - lo
    IN  IF 2 * r < q THEN lo
        ELSE IF 2 * r > q THEN lo + q
        ELSE IF DoubleError(x) > 0 THEN lo + q
        ELSE IF DoubleError(x) < 0 THEN lo
        ELSE IF (lo \div q) % 2 = 0 THEN lo ELSE lo + q

\* the intermediate rounding of estimate_night_time: 2 places, 1 in the aero file
NightQuantum(v) == IF v = "aero" THEN UnitsPerDeci ELSE UnitsPerCenti

(***************************************************************************)
(* Raw cell values.  A numeric cell is [k |-> "num", c |-> centi-hours];   *)
(* the other kinds are the non-numeric cells of the raw data.              *)
(***************************************************************************)
NumCell(c) == [k |-> "num", c |-> c]
OtherCell(kind) == [k |-> kind, c |-> 0]
HourCentis == {0, 25, 50, 146, 150}
HourCells == {NumCell(c) : c \in HourCentis} \cup {OtherCell("dot")}

\* safe_float_conversion
safe_float_conversion(value) ==
    IF value.k = "num" THEN value.c * UnitsPerCenti ELSE 0

(***************************************************************************)
(* Airports.  The primary dataset is external (airportsdata); MEM and HNL  *)
(* stand for codes it holds, CAN for a code only the fallback table holds, *)
(* ZZZ for a code neither holds.                                           *)
(***************************************************************************)
PrimaryAirports == {"MEM", "HNL"}
fallback_airport_timezones == {"CAN"}
AirportCodes == PrimaryAirports \cup fallback_airport_timezones \cup {"ZZZ"}

AirportTz(code) ==
    CASE code = "MEM" -> "America/Chicago"
      [] code = "HNL" -> "Pacific/Honolulu"
      [] code = "CAN" -> "Asia/Shanghai"
      [] OTHER -> "-"

get_airport_data(code) ==
    IF code \in PrimaryAirports THEN [found |-> TRUE, tz |-> AirportTz(code)]
    ELSE IF code \in fallback_airport_timezones
         THEN [found |-> TRUE, tz |-> AirportTz(code)]
         ELSE [found |-> FALSE, tz |-> "-"]

\* pytz utcoffset(now), in hours; dst is the season of "now"
UtcOffset(tz, dst) ==
    CASE tz = "America/Chicago" -> IF dst THEN 0 - 5 ELSE 0 - 6
      [] tz = "Pacific/Honolulu" -> 0 - 10
      [] tz = "Asia/Shanghai" -> 8
      [] OTHER -> 0

get_timezone_diff(tz1, tz2, dst) == Abs(UtcOffset(tz1, dst) - UtcOffset(tz2, dst))

(***************************************************************************)
(* Dates and clock times as they stand in a cell.                          *)
(*   date kinds: "mdy" 06/01/2024, "iso" 2024-06-01, "dmy" 25/12/2024,     *)
(*               "garbage" an unparseable string, "nonstr" a float (an     *)
(*               empty cell read by pandas), "none" None                   *)
(*   time cells: [k, h, m] with k "hhmm" HH:MM, "honly" a bare hour,       *)
(*               "dot" '.', "empty" '', "none" None, "nonstr" a float,     *)
(*               "garbage" an unparseable string                           *)
(***************************************************************************)
DateKinds == {"mdy", "iso", "dmy", "garbage", "nonstr", "none"}
TimeCell(k, h, m) == [k |-> k, h |-> h, m |-> m]
\* the substitute time taken to be 00:00
MidnightCell == TimeCell("hhmm", 0, 0)
\* the substitute "12:00" of parse_time
NoonCell == TimeCell("hhmm", NoonHour, 0)
Slots == 0..MaxSlot
SlotCells == {TimeCell("hhmm", NoonHour, s * SlotMinutes) : s \in Slots}
TimeCells == SlotCells
             \cup {TimeCell(k, 0, 0) : k \in {"dot", "empty", "none", "nonstr", "garbage"}}
             \cup {TimeCell("hhmm", 2 * NoonHour + 1, 0), TimeCell("honly", NoonHour + 1, 0)}
SlotInstant(s) == NoonHour * MinutesPerHour + s * SlotMinutes
Instants == {SlotInstant(s) : s \in Slots}
\* the cells estimate_night_time is exercised with
NightTimeCells == SlotCells \cup {TimeCell("dot", 0, 0), TimeCell("honly", NoonHour + 1, 0)}

\* datetime.strptime(date_str, "%m/%d/%Y")
StrptimeMdy(d) ==
    IF d = "mdy" THEN "ok"
    ELSE IF d \in {"nonstr", "none"} THEN "TypeError" ELSE "ValueError"

\* parse_date_flexible
parse_date_flexible(d) ==
    IF d \in {"iso", "mdy", "dmy"} THEN "ok"
    ELSE IF d \in {"nonstr", "none"} THEN "TypeError" ELSE "ValueError"

\* the malformed-time test at the head of parse_time
MalformedTime(t) == t.k \in {"none", "empty", "dot", "nonstr"}

InRange(t) == t.h >= 0 /\ t.h < 2 * NoonHour /\ t.m >= 0 /\ t.m < MinutesPerHour

At(base, minute) == [kind |-> "at", base |-> base, minute |-> minute, exc |-> "none"]
NowResult == [kind |-> "now", base |-> "-", minute |-> 0, exc |-> "none"]
Raise(e) == [kind |-> "raise", base |-> "-", minute |-> 0, exc |-> e]

(***************************************************************************)
(* parse_time.  The result is an instant "at" a minute of the flight date  *)
(* (base "date") or of the current date (base "today"), the current        *)
(* instant ("now"), or an exception leaving the function ("raise").        *)
(***************************************************************************)
ParseTimeStrptime(d, time_str) ==
    LET t == IF MalformedTime(time_str) THEN NoonCell ELSE time_str
        \* the f-string makes a string of any date value; None is replaced
        \* by today's date in app.py only
        base == IF d = "today" THEN "today" ELSE "date"
        dateOk == d \in {"mdy", "today"}
    IN  IF dateOk /\ t.k = "hhmm" /\ InRange(t)
        THEN At(base, t.h * MinutesPerHour + t.m)
        ELSE IF dateOk THEN At(base, NoonHour * MinutesPerHour)
        ELSE NowResult

ParseTimeFlexible(d, time_str) ==
    LET t == IF MalformedTime(time_str) THEN NoonCell ELSE time_str
        dr == parse_date_flexible(d)
        timeOk == t.k \in {"hhmm", "honly"} /\ InRange(t)
    IN  IF dr = "TypeError" THEN Raise("TypeError")
        ELSE IF dr = "ok" /\ timeOk THEN At("date", t.h * MinutesPerHour + t.m)
        ELSE IF dr = "ok" THEN At("date", NoonHour * MinutesPerHour)
        ELSE NowResult

parse_time(v, d, time_str) ==
    CASE v = "faa" -> ParseTimeStrptime(d, time_str)
      [] v = "web" -> ParseTimeStrptime(IF d = "none" THEN "today" ELSE d, time_str)
      [] OTHER -> ParseTimeFlexible(d, time_str)

(***************************************************************************)
(* The solar library.  sun(observer, date, tzinfo) either raises (no       *)
(* sunrise or sunset at that place and date) or yields the two instants.   *)
(***************************************************************************)
SunRaises == [raises |-> TRUE, sunrise |-> 0, sunset |-> 0]
SunInstants == {SlotInstant(s) : s \in {1, MaxSlot \div 2, MaxSlot - 1}}
SunTimes == {r \in [raises : {FALSE}, sunrise : SunInstants, sunset : SunInstants] :
                 r.sunrise < r.sunset}
SunResults == SunTimes \cup {SunRaises}

VARIABLES
    variant,             \* which of the three files runs
    npc,                 \* position inside estimate_night_time
    off_time, on_time,   \* parsed OFF and ON, minutes
    flt_time,            \* safe_float_conversion(FLT_HRS), units
    branch,              \* "none", "unresolved", "simple", "interp"
    tz_diff,
    sun,                 \* what get_sunrise_sunset returned in the simple rule
    current_time,        \* loop variable of format.py / format_logbook_aero.py
    segments, seg_i,     \* loop bounds of app.py
    total_night_minutes,
    night_hours,         \* the value returned
    exc,                 \* the exception that left the function, or "none"
    n_samples,           \* history: loop bodies executed
    n_credited,          \* history: samples found to be night
    n_failed,            \* history: samples whose solar calculation raised
    on_lattice           \* history: every sample so far was at off_time + 10 min * k

nightVars == <<npc, off_time, on_time, flt_time, branch, tz_diff, sun, current_time,
               segments, seg_i, total_night_minutes, night_hours, exc,
               n_samples, n_credited, n_failed, on_lattice>>

NightIdle ==
    /\ npc = "start"
    /\ off_time = 0 /\ on_time = 0 /\ flt_time = 0
    /\ branch = "none" /\ tz_diff = 0
    /\ sun = SunRaises
    /\ current_time = 0 /\ segments = 0 /\ seg_i = 0
    /\ total_night_minutes = 0 /\ night_hours = 0
    /\ exc = "none"
    /\ n_samples = 0 /\ n_credited = 0 /\ n_failed = 0 /\ on_lattice = TRUE

\* int(x / y) for y > 0: truncation toward zero
TruncDiv(x, y) == IF x >= 0 THEN x \div y ELSE 0 - ((0 - x) \div y)

\* the date parse that opens estimate_night_time (in app.py, the caller's
\* try/except around strptime never lets it raise)
NightDateParse(v, d) ==
    CASE v = "faa" -> StrptimeMdy(d)
      [] v = "aero" -> parse_date_flexible(d)
      [] OTHER -> "ok"

NightRaise(e) ==
    /\ npc' = "raised"
    /\ exc' = e
    /\ UNCHANGED <<off_time, on_time, flt_time, branch, tz_diff, sun, current_time,
                   segments, seg_i, total_night_minutes, night_hours,
                   n_samples, n_credited, n_failed, on_lattice>>

\* SimpleRule with the all-night test made strict (off > sunset, on < sunrise)
SimpleRuleStrict(v, off, on, sunrise, sunset, flt) ==
    IF off > sunset \/ on < sunrise THEN RoundTo(flt, NightQuantum(v))
    ELSE IF (off < sunset /\ sunset < on) \/ (off < sunrise /\ sunrise < on)
         THEN RoundTo(flt \div 2, NightQuantum(v))
         ELSE 0

\* the simple rule, once sunrise and sunset are known
SimpleRule(v, off, on, sunrise, sunset, flt) ==
    IF off >= sunset \/ on <= sunrise THEN RoundTo(flt, NightQuantum(v))
    ELSE IF (off < sunset /\ sunset < on) \/ (off < sunrise /\ sunrise < on)
         THEN RoundTo(flt \div 2, NightQuantum(v))
         ELSE 0

\* the closing lines of the interpolated rule
InterpResult(v, minutes, flt) ==
    Min(RoundTo(minutes * UnitsPerMinute, NightQuantum(v)), flt)

\* is a sample at instant t (seconds) night, given that day's sunrise and sunset
SampleIsNight(t, s) ==
    t < s.sunrise * MinutesPerHour \/ t > s.sunset * MinutesPerHour

(***************************************************************************)
(* estimate_night_time up to the branch on tz_diff.  The inputs are the    *)
(* cells of one row and the season of "now" that get_timezone_diff reads.  *)
(***************************************************************************)
NightBody(v, off, on, flt, org, dest, dst) ==
    LET origin_data == get_airport_data(org)
        dest_data == get_airport_data(dest)
        diff == get_timezone_diff(origin_data.tz, dest_data.tz, dst)
        segs == TruncDiv((on - off) * MinutesPerHour, IncrementMinutes * MinutesPerHour)
    IN  /\ off_time' = off /\ on_time' = on /\ flt_time' = flt
        /\ exc' = "none"
        /\ UNCHANGED <<sun, seg_i, total_night_minutes, n_samples, n_credited,
                       n_failed, on_lattice>>
        /\ IF ~origin_data.found \/ ~dest_data.found
           THEN /\ branch' = "unresolved" /\ npc' = "done" /\ night_hours' = 0
                /\ UNCHANGED <<tz_diff, current_time, segments>>
           ELSE /\ tz_diff' = diff
                /\ IF diff <= TzThreshold
                   THEN /\ branch' = "simple" /\ npc' = "simple"
                        /\ UNCHANGED <<current_time, segments, night_hours>>
                   ELSE /\ branch' = "interp"
                        /\ current_time' = off
                        /\ IF v = "web"
                           THEN /\ segments' = segs
                                /\ npc' = IF segs <= 0 THEN "done" ELSE "interp"
                                /\ night_hours' = 0
                           ELSE /\ npc' = "interp"
                                /\ UNCHANGED <<segments, night_hours>>

\* the instant a parse_time result denotes; the current instant is drawn
InstantsOf(r) == IF r.kind = "at" THEN {r.minute} ELSE Instants

NightStart ==
    /\ npc = "start"
    /\ \E d \in DateKinds, offc \in NightTimeCells, onc \in NightTimeCells, fc \in HourCells,
          org \in AirportCodes, dest \in AirportCodes, dst \in BOOLEAN :
          LET dr == NightDateParse(variant, d)
              po == parse_time(variant, d, offc)
              pn == parse_time(variant, d, onc)
          IN  /\ variant = "web" => d # "none"
              /\ IF dr # "ok" THEN NightRaise(dr)
                 ELSE IF po.kind = "raise" THEN NightRaise(po.exc)
                 ELSE IF pn.kind = "raise" THEN NightRaise(pn.exc)
                 ELSE \E off \in InstantsOf(po), on \in InstantsOf(pn) :
                         /\ (po.kind = "now" /\ pn.kind = "now") => on = off
                         /\ NightBody(variant, off, on, safe_float_conversion(fc),
                                      org, dest, dst)
    /\ UNCHANGED variant

\* the simple rule: get_sunrise_sunset for the destination, then the three cases
NightSimple ==
    /\ npc = "simple"
    /\ \E s \in SunResults :
          IF s.raises
          THEN NightRaise("SolarError")
          ELSE /\ sun' = s
               /\ night_hours' = SimpleRule(variant, off_time, on_time,
                                            s.sunrise, s.sunset, flt_time)
               /\ npc' = "done"
               /\ UNCHANGED <<off_time, on_time, flt_time, branch, tz_diff,
                              current_time, segments, seg_i, total_night_minutes,
                              exc, n_samples, n_credited, n_failed, on_lattice>>
    /\ UNCHANGED variant

\* SampleStep with a failing solar calculation counted as night
SampleStepFailureCredits(t) ==
    \E s \in SunResults :
        /\ n_samples' = n_samples + 1
        /\ on_lattice' = (on_lattice /\ t = (off_time + IncrementMinutes * n_samples)
                                              * MinutesPerHour)
        /\ IF s.raises
           THEN /\ n_failed' = n_failed + 1
                /\ total_night_minutes' = total_night_minutes + IncrementMinutes
                /\ UNCHANGED n_credited
           ELSE IF SampleIsNight(t, s)
                THEN /\ total_night_minutes' = total_night_minutes + IncrementMinutes
                     /\ n_credited' = n_credited + 1
                     /\ UNCHANGED n_failed
                ELSE UNCHANGED <<total_night_minutes, n_credited, n_failed>>

\* one body of a sampling loop, the sample taken at instant t (seconds)
SampleStep(t) ==
    \E s \in SunResults :
        /\ n_samples' = n_samples + 1
        /\ on_lattice' = (on_lattice /\ t = (off_time + IncrementMinutes * n_samples)
                                              * MinutesPerHour)
        /\ IF s.raises
           THEN /\ n_failed' = n_failed + 1
                /\ UNCHANGED <<total_night_minutes, n_credited>>
           ELSE IF SampleIsNight(t, s)
                THEN /\ total_night_minutes' = total_night_minutes + IncrementMinutes
                     /\ n_credited' = n_credited + 1
                     /\ UNCHANGED n_failed
                ELSE UNCHANGED <<total_night_minutes, n_credited, n_failed>>

\* while current_time < on_time (format.py, format_logbook_aero.py)
NightLoopStep ==
    /\ npc = "interp" /\ variant # "web"
    /\ current_time < on_time
    /\ SampleStep(current_time * MinutesPerHour)
    /\ current_time' = current_time + IncrementMinutes
    /\ UNCHANGED <<variant, npc, off_time, on_time, flt_time, branch, tz_diff, sun,
                   segments, seg_i, night_hours, exc>>

NightLoopExit ==
    /\ npc = "interp" /\ variant # "web"
    /\ ~(current_time < on_time)
    /\ night_hours' = InterpResult(variant, total_night_minutes, flt_time)
    /\ npc' = "done"
    /\ UNCHANGED <<variant, off_time, on_time, flt_time, branch, tz_diff, sun,
                   current_time, segments, seg_i, total_night_minutes, exc,
                   n_samples, n_credited, n_failed, on_lattice>>

\* the instant of app.py's sample i, seconds: off_time + (on_time - off_time) * i / segments
WebSampleInstant(off, on, i, segs) ==
    off * MinutesPerHour + ((on - off) * MinutesPerHour * i) \div segs

\* for i in range(segments) (app.py)
NightWebStep ==
    /\ npc = "interp" /\ variant = "web"
    /\ seg_i < segments
    /\ SampleStep(WebSampleInstant(off_time, on_time, seg_i, segments))
    /\ seg_i' = seg_i + 1
    /\ UNCHANGED <<variant, npc, off_time, on_time, flt_time, branch, tz_diff, sun,
                   current_time, segments, night_hours, exc>>

NightWebExit ==
    /\ npc = "interp" /\ variant = "web"
    /\ ~(seg_i < segments)
    /\ night_hours' = InterpResult(variant, total_night_minutes, flt_time)
    /\ npc' = "done"
    /\ UNCHANGED <<variant, off_time, on_time, flt_time, branch, tz_diff, sun,
                   current_time, segments, seg_i, total_night_minutes, exc,
                   n_samples, n_credited, n_failed, on_lattice>>

(***************************************************************************)
(* Crew time.  CREW_POSITION_DISTRIBUTION holds the fractions 1.0, 0.5 and *)
(* 0.0; the model holds them doubled (2, 1, 0).                            *)
(***************************************************************************)
Roles == {"captain", "first_officer", "relief_first_officer", "relief_captain"}
Positions == Roles \cup {"navigator"}

\* the table with the relief roles credited in full
CrewDistributionFullRelief(position) ==
    CASE position \in {"captain", "relief_captain"} ->
             [PIC |-> 2, SIC |-> 0, Duration |-> 2]
      [] position \in {"first_officer", "relief_first_officer"} ->
             [PIC |-> 0, SIC |-> 2, Duration |-> 2]

CREW_POSITION_DISTRIBUTION(position) ==
    CASE position = "captain" -> [PIC |-> 2, SIC |-> 0, Duration |-> 2]
      [] position = "first_officer" -> [PIC |-> 0, SIC |-> 2, Duration |-> 2]
      [] position = "relief_first_officer" -> [PIC |-> 0, SIC |-> 1, Duration |-> 1]
      [] position = "relief_captain" -> [PIC |-> 1, SIC |-> 0, Duration |-> 1]

Fraction(x, f2) == (x * f2) \div 2

(***************************************************************************)
(* An entry of oe_data: the role and the two override times, each None or  *)
(* a number.  OeEntries are the shapes load_oe_data builds: the seat or    *)
(* role decides which of the two times may carry a value, the other is 0.0 *)
(* or both are None.  "absent" stands for a flight with no entry.          *)
(***************************************************************************)
OeNone == [some |-> FALSE, v |-> 0]
OeSome(c) == [some |-> TRUE, v |-> c * UnitsPerCenti]
OeCentis == {0, 150, 600}
OeTimes == {OeNone} \cup {OeSome(c) : c \in OeCentis}
OeAbsent == [present |-> FALSE, role |-> "captain", pic_time |-> OeNone, sic_time |-> OeNone]
OeEntries ==
    {e \in [present : {TRUE}, role : Roles, pic_time : OeTimes, sic_time : OeTimes] :
        \/ e.role \in {"captain", "first_officer"}
           /\ e.pic_time = OeNone /\ e.sic_time = OeNone
        \/ e.role = "captain" /\ e.sic_time = OeSome(0)
        \/ e.role = "relief_captain" /\ e.sic_time = OeSome(0)
           /\ e.pic_time # OeSome(0)
        \/ e.role = "first_officer" /\ e.pic_time = OeSome(0)
        \/ e.role = "relief_first_officer" /\ e.pic_time = OeSome(0)
           /\ e.sic_time # OeSome(0)}

BlockCentis == {0, 150, 500}
BlockCells == {NumCell(c) : c \in BlockCentis} \cup {OtherCell("dot")}
CrewFlightCells == {NumCell(c) : c \in {50, 146}}

NoTimes == [PIC |-> 0, SIC |-> 0, XC |-> 0, Duration |-> 0, hasDuration |-> FALSE]

\* assign_crew_time of format.py: the override replaces the base value as it is
AssignCrewTimeFaa(blk, flt, position, oe) ==
    LET block_time == safe_float_conversion(blk)
        flight_time == safe_float_conversion(flt)
        distribution == CREW_POSITION_DISTRIBUTION(position)
        pic == Fraction(block_time, distribution.PIC)
        sic == Fraction(block_time, distribution.SIC)
    IN  [PIC |-> IF oe.present /\ oe.pic_time.some THEN oe.pic_time.v ELSE pic,
         SIC |-> IF oe.present /\ oe.sic_time.some THEN oe.sic_time.v ELSE sic,
         XC |-> block_time,
         Duration |-> Fraction(flight_time, distribution.Duration),
         hasDuration |-> TRUE]

\* assign_crew_time of format_logbook_aero.py: every value is capped at total_time
AssignCrewTimeAero(blk, flt, position, oe) ==
    LET total_time == safe_float_conversion(blk)
        distribution == CREW_POSITION_DISTRIBUTION(position)
        pic == Fraction(total_time, distribution.PIC)
        sic == Fraction(total_time, distribution.SIC)
        pic1 == IF oe.present /\ oe.pic_time.some
                THEN Min(oe.pic_time.v, total_time) ELSE pic
        sic1 == IF oe.present /\ oe.sic_time.some
                THEN Min(oe.sic_time.v, total_time) ELSE sic
    IN  [PIC |-> Min(pic1, total_time),
         SIC |-> Min(sic1, total_time),
         XC |-> total_time,
         Duration |-> 0,
         hasDuration |-> FALSE]

\* the crew-time lines of process_flight_data (app.py): no OE data is read
AssignCrewTimeWeb(blk, flt, position, oe) ==
    LET blk_time == safe_float_conversion(blk)
        flt_time_ == safe_float_conversion(flt)
        distribution == CREW_POSITION_DISTRIBUTION(position)
    IN  [PIC |-> Fraction(blk_time, distribution.PIC),
         SIC |-> Fraction(blk_time, distribution.SIC),
         XC |-> blk_time,
         Duration |-> Fraction(flt_time_, distribution.Duration),
         hasDuration |-> TRUE]

assign_crew_time(v, blk, flt, position, oe) ==
    CASE v = "faa" -> AssignCrewTimeFaa(blk, flt, position, oe)
      [] v = "aero" -> AssignCrewTimeAero(blk, flt, position, oe)
      [] OTHER -> AssignCrewTimeWeb(blk, flt, position, oe)

VARIABLES
    cpc,          \* "start", "done", "raised"
    crew_row,     \* the inputs of the call: BLK_HRS, FLT_HRS, position, OE entry
    crew_times,   \* the dict returned
    crew_exc      \* "none" or the exception raised

crewVars == <<cpc, crew_row, crew_times, crew_exc>>

NoCrewRow == [BLK_HRS |-> OtherCell("dot"), FLT_HRS |-> OtherCell("dot"),
              position |-> "captain", oe |-> OeAbsent]

CrewIdle ==
    /\ cpc = "start" /\ crew_row = NoCrewRow /\ crew_times = NoTimes
    /\ crew_exc = "none"

\* one call of assign_crew_time; CREW_POSITION_DISTRIBUTION[position] raises
\* KeyError for a position that is not in the table
CrewAssign ==
    /\ cpc = "start"
    /\ \E blk \in BlockCells, flt \in CrewFlightCells, position \in Positions,
          oe \in OeEntries \cup {OeAbsent} :
          /\ variant = "web" => ~oe.present
          /\ crew_row' = [BLK_HRS |-> blk, FLT_HRS |-> flt,
                          position |-> position, oe |-> oe]
          /\ IF position \in Roles
             THEN /\ crew_times' = assign_crew_time(variant, blk, flt, position, oe)
                  /\ cpc' = "done" /\ crew_exc' = "none"
             ELSE /\ cpc' = "raised" /\ crew_exc' = "KeyError"
                  /\ UNCHANGED crew_times

(***************************************************************************)
(* The position of a flight.  oe is the flight's entry in oe_data, or      *)
(* OeAbsent when oe_data is empty or holds no entry for the flight.        *)
(***************************************************************************)
determine_crew_position(default_position, oe) ==
    IF oe.present THEN oe.role ELSE default_position

VARIABLES
    qpc,              \* "start", "done"
    pos_request,      \* the position the caller asked for and the flight's OE entry
    flight_position   \* the position the flight's crew times are computed for

positionVars == <<qpc, pos_request, flight_position>>

PositionIdle ==
    /\ qpc = "start"
    /\ pos_request = [position |-> "captain", oe |-> OeAbsent]
    /\ flight_position = "captain"

\* the position of one flight: main_web of the two formatters asks
\* determine_crew_position under 'auto'; process_flight_data of app.py takes
\* oe_file and never reads it, 'auto' is captain there
ResolvePosition ==
    /\ qpc = "start"
    /\ \E position \in Roles \cup {"auto"}, oe \in OeEntries \cup {OeAbsent} :
          /\ pos_request' = [position |-> position, oe |-> oe]
          /\ flight_position' =
                IF position # "auto" THEN position
                ELSE IF variant = "web" THEN "captain"
                ELSE determine_crew_position("captain", oe)
    /\ qpc' = "done"

(***************************************************************************)
(* Landings.  A LANDING cell is an int, a float or a string; "none" stands *)
(* for a missing value and "absent" for a row without the column.          *)
(***************************************************************************)
LandingCell(k, n, str) == [k |-> k, n |-> n, s |-> str]
LandingCells ==
    {LandingCell("int", 1, ""), LandingCell("int", 0, ""), LandingCell("int", 2, ""),
     LandingCell("float", 1, ""), LandingCell("str", 0, "1"), LandingCell("str", 0, "0"),
     LandingCell("str", 0, "1.0"), LandingCell("none", 0, ""),
     LandingCell("absent", 0, "")}

\* performed_landing with any non-zero number taken for a landing
PerformedLandingTruthy(c) ==
    \/ c.k \in {"int", "float"} /\ c.n # 0
    \/ c.k = "str" /\ c.s = "1"

\* landing_val == 1 or landing_val == '1', row.get('LANDING', 0) giving 0 for
\* a row without the column
PerformedLanding(c) ==
    \/ c.k \in {"int", "float"} /\ c.n = 1
    \/ c.k = "str" /\ c.s = "1"

\* sunrise and sunset as the landing classifier may meet them: the instants of
\* the simple rule and a sunset a twilight before the first slots
LandingSunInstants == SunInstants \cup {SlotInstant(1) - TwilightMinutes}
LandingSunTimes ==
    {r \in [raises : {FALSE}, sunrise : LandingSunInstants, sunset : LandingSunInstants] :
        r.sunrise < r.sunset}
LandingSunResults == LandingSunTimes \cup {SunRaises}

\* the comparison with both bounds exclusive
IsNightInstantStrict(t, sunrise, sunset) ==
    LET civil_twilight == sunset + TwilightMinutes
    IN  t > civil_twilight \/ t < sunrise

\* the closing comparison of is_night_landing / is_night_time
IsNightInstant(t, sunrise, sunset) ==
    LET civil_twilight == sunset + TwilightMinutes
    IN  t >= civil_twilight \/ t <= sunrise

VARIABLES
    lpc,            \* "start", "done"
    landing_val,    \* the LANDING cell
    landing_time,   \* the instant classified, minutes (0 when none was made)
    land_sun,       \* what the solar library gave for the destination
    land_caught,    \* an exception was caught and the day default returned
    landings        \* <<day_landings, night_landings>>

landVars == <<lpc, landing_val, landing_time, land_sun, land_caught, landings>>

LandIdle ==
    /\ lpc = "start" /\ landing_val = LandingCell("absent", 0, "")
    /\ landing_time = 0 /\ land_sun = SunRaises /\ land_caught = FALSE
    /\ landings = <<0, 0>>

\* the landing instant: parse_time(DEPT_DATE, ON) in the two formatters, the
\* caller's on_time in app.py (rows without a date never reach it)
LandingParse(v, d, onc) == parse_time(v, d, onc)

(***************************************************************************)
(* process_landings, whole: the LANDING test, then the classification      *)
(* inside try/except, which turns every exception into a day landing.      *)
(***************************************************************************)
ProcessLandings ==
    /\ lpc = "start"
    /\ \E c \in LandingCells, d \in DateKinds, onc \in NightTimeCells,
          dest \in AirportCodes, s \in LandingSunResults :
          LET r == LandingParse(variant, d, onc)
              airport_data == get_airport_data(dest)
          IN  /\ variant = "web" => d # "none"
              /\ landing_val' = c
              /\ lpc' = "done"
              /\ IF ~PerformedLanding(c)
                 THEN /\ landings' = <<0, 0>>
                      /\ UNCHANGED <<landing_time, land_sun, land_caught>>
                 ELSE IF r.kind = "raise"
                 THEN /\ landings' = <<1, 0>> /\ land_caught' = TRUE
                      /\ UNCHANGED <<landing_time, land_sun>>
                 ELSE \E t \in InstantsOf(r) :
                      /\ landing_time' = t
                      /\ IF ~airport_data.found
                         THEN /\ landings' = <<1, 0>>
                              /\ UNCHANGED <<land_sun, land_caught>>
                         ELSE IF s.raises
                         THEN /\ landings' = <<1, 0>> /\ land_caught' = TRUE
                              /\ UNCHANGED land_sun
                         ELSE /\ land_sun' = s
                              /\ landings' = IF IsNightInstant(t, s.sunrise, s.sunset)
                                             THEN <<0, 1>> ELSE <<1, 0>>
                              /\ UNCHANGED land_caught

(***************************************************************************)
(* The landing and the takeoff of one row.  process_landings classifies    *)
(* the ON instant at DEST; process_takeoffs, which only                    *)
(* format_logbook_aero.py has, classifies the OFF instant at ORG.  Both    *)
(* run their classification inside try / except Exception.                 *)
(***************************************************************************)
\* an unresolved airport taken for a night event
UnknownAirportNight == TRUE

\* "if not airport_data: return False" of is_night_landing / is_night_time
UnknownAirportIsNight == FALSE

\* the classes "except Exception" catches: all the body can raise
ExceptionClasses == {"ValueError", "TypeError", "KeyError", "IndexError"}

EventCredit(credit, e) == [credit |-> credit, exc |-> e]

\* the except clause: the day default for a caught exception
ExceptDayDefault(e) ==
    IF e \in ExceptionClasses THEN EventCredit(<<1, 0>>, "none")
    ELSE EventCredit(<<0, 0>>, e)

\* the body of process_landings / process_takeoffs for a LANDING cell c, the
\* parsed time r taken at instant t, the airport and the solar result s
ClassifyEvent(c, r, t, airport, s) ==
    IF ~PerformedLanding(c) THEN EventCredit(<<0, 0>>, "none")
    ELSE IF r.kind = "raise" THEN ExceptDayDefault(r.exc)
    ELSE IF ~get_airport_data(airport).found
         THEN EventCredit(IF UnknownAirportIsNight THEN <<0, 1>> ELSE <<1, 0>>, "none")
    ELSE IF s.raises THEN ExceptDayDefault("ValueError")
    ELSE EventCredit(IF IsNightInstant(t, s.sunrise, s.sunset)
                     THEN <<0, 1>> ELSE <<1, 0>>, "none")

EventLandingCells ==
    {LandingCell("int", 1, ""), LandingCell("str", 0, "1"), LandingCell("int", 0, ""),
     LandingCell("int", 2, "")}
EventDates == {"mdy", "garbage", "nonstr"}
EventTimeCells ==
    {TimeCell("hhmm", NoonHour, SlotMinutes),
     TimeCell("hhmm", NoonHour, MaxSlot * SlotMinutes), TimeCell("dot", 0, 0)}
\* the current instant, when parse_time falls back to it
EventNowInstants == {SlotInstant(1), SlotInstant(MaxSlot)}
EventAirports == {"MEM", "ZZZ"}
\* sunrise and sunset around the first slot: a twilight (and a slot more)
\* before it, on it, and on the last slot
EventSunInstants ==
    {SlotInstant(1) - TwilightMinutes - SlotMinutes, SlotInstant(1) - TwilightMinutes,
     SlotInstant(1), SlotInstant(MaxSlot)}
EventSunResults ==
    {r \in [raises : {FALSE}, sunrise : EventSunInstants, sunset : EventSunInstants] :
        r.sunrise < r.sunset} \cup {SunRaises}
EventRows ==
    [LANDING : EventLandingCells, DEPT_DATE : EventDates, OFF : EventTimeCells,
     ON : EventTimeCells, ORG : EventAirports, DEST : EventAirports]
NoEventRow ==
    [LANDING |-> LandingCell("absent", 0, ""), DEPT_DATE |-> "mdy", OFF |-> NoonCell,
     ON |-> NoonCell, ORG |-> "MEM", DEST |-> "MEM"]

VARIABLES
    epc,        \* "start", "done"
    ev_row,     \* the row: LANDING, DEPT_DATE, OFF, ON, ORG, DEST
    ev_sun,     \* what the solar library gives at ORG and at DEST
    ev_time,    \* the takeoff and landing instants, minutes (0 when none)
    ev_out      \* landings and takeoffs credited and the exception that left

eventVars == <<epc, ev_row, ev_sun, ev_time, ev_out>>

EventIdle ==
    /\ epc = "start" /\ ev_row = NoEventRow
    /\ ev_sun = [org |-> SunRaises, dest |-> SunRaises]
    /\ ev_time = [off |-> 0, on |-> 0]
    /\ ev_out = [landings |-> <<0, 0>>, takeoffs |-> <<0, 0>>, hasTakeoffs |-> FALSE,
                 exc |-> "none"]

\* process_landings and, in format_logbook_aero.py, process_takeoffs on the
\* same row (app.py hands process_landings the on_time its caller parsed, so a
\* row whose date or time does not parse never reaches it)
ProcessRowEvents ==
    /\ epc = "start"
    /\ \E row \in EventRows, so \in EventSunResults, sd \in EventSunResults :
          LET roff == parse_time(variant, row.DEPT_DATE, row.OFF)
              ron == parse_time(variant, row.DEPT_DATE, row.ON)
          IN  /\ variant = "web" => (row.DEPT_DATE = "mdy" /\ ron.kind # "raise")
              /\ \E now \in EventNowInstants :
                  \E toff \in InstantsOf(roff) \cap ({roff.minute} \cup {now}),
                     ton \in InstantsOf(ron) \cap ({ron.minute} \cup {now}) :
                    LET land == ClassifyEvent(row.LANDING, ron, ton, row.DEST, sd)
                        take == ClassifyEvent(row.LANDING, roff, toff, row.ORG, so)
                        aero == variant = "aero"
                    IN  /\ ev_row' = row
                        /\ ev_sun' = [org |-> so, dest |-> sd]
                        /\ ev_time' = [off |-> IF roff.kind = "raise" THEN 0 ELSE toff,
                                       on |-> IF ron.kind = "raise" THEN 0 ELSE ton]
                        /\ ev_out' =
                              [landings |-> land.credit,
                               takeoffs |-> IF aero THEN take.credit ELSE <<0, 0>>,
                               hasTakeoffs |-> aero,
                               exc |-> IF land.exc # "none" THEN land.exc
                                       ELSE IF aero THEN take.exc ELSE "none"]
                        /\ epc' = "done"

(***************************************************************************)
(* parse_time as a call of its own.                                        *)
(***************************************************************************)
VARIABLES
    ppc,          \* "start", "done"
    parse_in,     \* the arguments: date_str and time_str
    parse_out     \* what the call gave: see parse_time

parseVars == <<ppc, parse_in, parse_out>>

ParseIdle ==
    /\ ppc = "start"
    /\ parse_in = [date_str |-> "mdy", time_str |-> NoonCell]
    /\ parse_out = NowResult

ParseCall ==
    /\ ppc = "start"
    /\ \E d \in DateKinds, t \in TimeCells :
          /\ parse_in' = [date_str |-> d, time_str |-> t]
          /\ parse_out' = parse_time(variant, d, t)
          /\ ppc' = "done"

(***************************************************************************)
(* A batch run: main_web of the two formatters and process_flight_data of  *)
(* app.py, without an OE file.  The rows of a batch are drawn from a few   *)
(* concrete rows, one healthy and one per defect.                          *)
(***************************************************************************)
MaxRows == 2

RowKinds == {"good", "long_haul", "bad_date", "nonstr_date", "bad_time",
             "unknown_airport", "solar_fail", "no_origin"}

\* sun_fails: the solar library raises for this row's places and date
BatchRow(kind) ==
    [DEPT_DATE |-> CASE kind = "bad_date" -> "garbage"
                     [] kind = "nonstr_date" -> "nonstr"
                     [] OTHER -> "mdy",
     ORG |-> IF kind = "no_origin" THEN "" ELSE "MEM",
     DEST |-> CASE kind = "unknown_airport" -> "ZZZ"
                [] kind = "long_haul" -> "CAN"
                [] OTHER -> "MEM",
     OFF |-> IF kind = "bad_time" THEN TimeCell("dot", 0, 0)
             ELSE TimeCell("hhmm", NoonHour, 0),
     ON |-> TimeCell("hhmm", NoonHour, 2 * SlotMinutes),
     sun_fails |-> kind \in {"solar_fail", "long_haul"}]

\* format_date_logbook_aero: the date rewritten as YYYY-MM-DD, left as it is
\* when no format matches, TypeError for a value that is no string
format_date_logbook_aero(d) ==
    CASE parse_date_flexible(d) = "ok" -> "iso"
      [] parse_date_flexible(d) = "ValueError" -> d
      [] OTHER -> "TypeError"

\* the exception that leaves estimate_night_time for a row, or "none"; in the
\* interpolated rule every solar failure is caught inside the loop
NightRowException(v, r, d, dst) ==
    LET origin_data == get_airport_data(r.ORG)
        dest_data == get_airport_data(r.DEST)
        po == parse_time(v, d, r.OFF)
        pn == parse_time(v, d, r.ON)
    IN  IF NightDateParse(v, d) # "ok" THEN NightDateParse(v, d)
        ELSE IF po.kind = "raise" THEN po.exc
        ELSE IF pn.kind = "raise" THEN pn.exc
        ELSE IF ~origin_data.found \/ ~dest_data.found THEN "none"
        ELSE IF get_timezone_diff(origin_data.tz, dest_data.tz, dst) <= TzThreshold
                /\ r.sun_fails
             THEN "SolarError"
             ELSE "none"


VARIABLES
    bpc,             \* position inside the run
    df,              \* the rows read from the flights file
    crew_position,   \* the position the caller passed
    cursor,          \* the row a column pass or the row loop is at
    results,         \* app.py: indices of the rows appended to results
    output,          \* indices of the rows in the output file
    output_written,  \* the output file exists
    batch_exc,       \* the exception that ended the run, or "none"
    rows_processed   \* the count returned

batchVars == <<bpc, df, crew_position, cursor, results, output, output_written,
               batch_exc, rows_processed>>

BatchPositions == {"captain", "relief_captain", "auto", "navigator"}
Batches == UNION {[1..n -> RowKinds] : n \in 1..MaxRows}

BatchIdle ==
    /\ bpc = "start" /\ df = <<>> /\ crew_position = "captain" /\ cursor = 0
    /\ results = <<>> /\ output = <<>> /\ output_written = FALSE
    /\ batch_exc = "none" /\ rows_processed = 0

BatchFail(e) ==
    /\ bpc' = "failed" /\ batch_exc' = e
    /\ UNCHANGED <<df, crew_position, cursor, results, output, output_written,
                   rows_processed>>

BatchGoto(stage, c) ==
    /\ bpc' = stage /\ cursor' = c
    /\ UNCHANGED <<df, crew_position, results, output, output_written, batch_exc,
                   rows_processed>>

\* main_web: pd.read_csv and rows_processed = len(df)
FormatLoad ==
    /\ bpc = "start" /\ variant # "web"
    /\ bpc' = IF variant = "aero" THEN "dates" ELSE "night"
    /\ cursor' = 1
    /\ rows_processed' = Len(df)
    /\ UNCHANGED <<df, crew_position, results, output, output_written, batch_exc>>

\* format_logbook_aero.py: df['DEPT_DATE'].apply(format_date_logbook_aero)
AeroDateRow ==
    /\ bpc = "dates" /\ cursor <= Len(df)
    /\ IF format_date_logbook_aero(BatchRow(df[cursor]).DEPT_DATE) = "TypeError"
       THEN BatchFail("TypeError")
       ELSE BatchGoto(IF cursor = Len(df) THEN "night" ELSE "dates",
                      IF cursor = Len(df) THEN 1 ELSE cursor + 1)

\* the date a row carries when the night-time pass reads it
PassDate(v, r) ==
    IF v = "aero" THEN format_date_logbook_aero(r.DEPT_DATE) ELSE r.DEPT_DATE

\* df.apply(estimate_night_time, axis=1), one row; the passes that follow it
\* (instrument time, landings, takeoffs, approaches) raise nothing
FormatNightRow ==
    /\ bpc = "night" /\ cursor <= Len(df)
    /\ \E dst \in BOOLEAN :
          LET r == BatchRow(df[cursor])
              e == NightRowException(variant, r, PassDate(variant, r), dst)
          IN  IF e # "none"
              THEN BatchFail(e)
              ELSE BatchGoto(IF cursor = Len(df) THEN "crew" ELSE "night",
                             IF cursor = Len(df) THEN 1 ELSE cursor + 1)

\* df.apply(assign_crew_time ...), one row: the position is looked up in
\* CREW_POSITION_DISTRIBUTION here, and a position outside it raises KeyError,
\* the invalid-role error of the formatters
FormatCrewRow ==
    /\ bpc = "crew" /\ cursor <= Len(df)
    /\ LET position == IF crew_position = "auto"
                       THEN determine_crew_position("captain", OeAbsent)
                       ELSE crew_position
       IN  IF position \notin Roles
           THEN BatchFail("InvalidRole")
           ELSE BatchGoto(IF cursor = Len(df) THEN "write" ELSE "crew",
                          IF cursor = Len(df) THEN 1 ELSE cursor + 1)

\* df.to_csv(output_csv): every row of the frame
FormatWrite ==
    /\ bpc = "write"
    /\ output' = [i \in 1..Len(df) |-> i]
    /\ output_written' = TRUE
    /\ bpc' = "done"
    /\ UNCHANGED <<df, crew_position, cursor, results, batch_exc, rows_processed>>

\* process_flight_data: the position is validated before the file is read
WebValidate ==
    /\ bpc = "start" /\ variant = "web"
    /\ IF crew_position \notin Roles /\ crew_position # "auto"
       THEN BatchFail("InvalidRole")
       ELSE /\ bpc' = "rows" /\ cursor' = 1
            /\ crew_position' = IF crew_position = "auto" THEN "captain"
                                ELSE crew_position
            /\ rows_processed' = Len(df)
            /\ UNCHANGED <<df, results, output, output_written, batch_exc>>

\* one turn of the row loop: a row without origin, destination or date is
\* skipped, a row that raises is skipped by the except clause, any other row
\* is appended to results
WebRow ==
    /\ bpc = "rows" /\ cursor <= Len(df)
    /\ \E dst \in BOOLEAN :
          LET r == BatchRow(df[cursor])
              \* an empty cell is None in the frame app.py reads
              date_str == IF r.DEPT_DATE = "nonstr" THEN "none" ELSE r.DEPT_DATE
              skipped == r.ORG = "" \/ r.DEST = "" \/ date_str = "none"
              e == NightRowException(variant, r, date_str, dst)
          IN  /\ results' = IF skipped \/ e # "none" THEN results
                            ELSE Append(results, cursor)
              /\ cursor' = cursor + 1
              /\ UNCHANGED <<bpc, df, crew_position, output, output_written,
                             batch_exc, rows_processed>>

\* after the loop: no result is an error, otherwise results are written
WebFinish ==
    /\ bpc = "rows" /\ cursor > Len(df)
    /\ IF results = <<>>
       THEN BatchFail("NoValidData")
       ELSE /\ output' = results /\ output_written' = TRUE /\ bpc' = "done"
            /\ UNCHANGED <<df, crew_position, cursor, results, batch_exc,
                           rows_processed>>

(***************************************************************************)
(* get_timezone_diff behind @lru_cache(maxsize=128).  The cache is keyed   *)
(* on the arguments as passed, (tz1, tz2); a miss computes the difference  *)
(* from the offsets at the wall clock's "now" and stores it.  The cache    *)
(* lives as long as the process.  The zones of the model give 9 argument   *)
(* pairs, fewer than maxsize, so nothing is ever evicted here.             *)
(***************************************************************************)
MaxCalls == 3
CacheMaxSize == 128

Timezones == {AirportTz(c) : c \in PrimaryAirports \cup fallback_airport_timezones}
TzPairs == Timezones \X Timezones
NotCached == 0 - 1

VARIABLES
    tz_cache,     \* per argument pair, the stored result or NotCached
    clock_dst,    \* the season of the wall clock's "now"
    tz_calls,     \* calls made so far
    tz_call,      \* the arguments of the last call
    tz_result,    \* what the last call returned
    tz_hit        \* the last call was answered from the cache

tzVars == <<tz_cache, clock_dst, tz_calls, tz_call, tz_result, tz_hit>>

TzIdle ==
    /\ tz_cache = [p \in TzPairs |-> NotCached]
    /\ clock_dst = FALSE
    /\ tz_calls = 0
    /\ tz_call = <<"America/Chicago", "America/Chicago">>
    /\ tz_result = 0
    /\ tz_hit = FALSE

\* what get_timezone_diff(p[1], p[2]) returns when called in this state
CachedTimezoneDiff(p) ==
    IF tz_cache[p] # NotCached THEN tz_cache[p]
    ELSE get_timezone_diff(p[1], p[2], clock_dst)

\* one call of the cached function
TimezoneDiffCall ==
    /\ tz_calls < MaxCalls
    /\ Cardinality({p \in TzPairs : tz_cache[p] # NotCached}) < CacheMaxSize
    /\ \E p \in TzPairs :
          /\ tz_call' = p
          /\ tz_result' = CachedTimezoneDiff(p)
          /\ tz_hit' = (tz_cache[p] # NotCached)
          /\ tz_cache' = [tz_cache EXCEPT ![p] = CachedTimezoneDiff(p)]
    /\ tz_calls' = tz_calls + 1
    /\ UNCHANGED clock_dst

\* the wall clock passes a daylight-saving change
ClockPasses ==
    /\ clock_dst' = ~clock_dst
    /\ UNCHANGED <<tz_cache, tz_calls, tz_call, tz_result, tz_hit>>

(***************************************************************************)
(* The output row.  One flight record is taken through the columns the     *)
(* three files build for it and the final formatting: the estimate of      *)
(* night time, the instrument time, the crew times (no OE file), the caps  *)
(* of the aero file, the renaming of the columns and the rounding to one   *)
(* place.  The three files are run on the same record side by side.        *)
(***************************************************************************)
ReportFlightCentis == HourCentis \cup {89}
ReportRows ==
    [FLT_HRS : {NumCell(c) : c \in ReportFlightCentis} \cup {OtherCell("dot")},
     BLK_HRS : BlockCells,
     position : Roles]

\* instrument time taken to be the whole night time
CalculateActualInstrumentFull(night_time) == night_time

\* calculate_actual_instrument; act_inst = night_time * 0.5 in app.py
calculate_actual_instrument(night_time) == night_time \div 2

NoColumns == [NightTime |-> 0, ActInst |-> 0, PIC |-> 0, SIC |-> 0, XC |-> 0]
NoReport == [Duration |-> 0, hasDuration |-> FALSE, Block |-> 0, PIC |-> 0,
             SIC |-> 0, XC |-> 0, Night |-> 0, Inst |-> 0]

VARIABLES
    rpc,          \* "start", "estimated", "columns", "done"
    rep_row,      \* the flight record: FLT_HRS, BLK_HRS and the crew position
    night_est,    \* per file, what estimate_night_time returned
    columns,      \* per file, the computed columns before formatting
    report        \* per file, the output row

reportVars == <<rpc, rep_row, night_est, columns, report>>

ReportIdle ==
    /\ rpc = "start"
    /\ rep_row = [FLT_HRS |-> OtherCell("dot"), BLK_HRS |-> OtherCell("dot"),
                  position |-> "captain"]
    /\ night_est = [v \in Variants |-> 0]
    /\ columns = [v \in Variants |-> NoColumns]
    /\ report = [v \in Variants |-> NoReport]

\* estimate_night_time on the record, in each file under the same airports,
\* times and solar results: the simple rule, or the interpolated rule with k
\* night samples
ReportEstimate ==
    /\ rpc = "start"
    /\ \E row \in ReportRows :
          LET flt == safe_float_conversion(row.FLT_HRS)
          IN  /\ rep_row' = row
              /\ \/ \E off \in Instants, on \in Instants, s \in SunTimes :
                       night_est' = [v \in Variants |->
                           SimpleRule(v, off, on, s.sunrise, s.sunset, flt)]
                 \/ \E k \in 0..MaxSlot :
                       night_est' = [v \in Variants |->
                           InterpResult(v, k * IncrementMinutes, flt)]
    /\ rpc' = "estimated"
    /\ UNCHANGED <<columns, report>>

\* the columns added to the row: Night Time, Act Inst, the crew times, and in
\* format_logbook_aero.py the caps of Night Time and Act Inst at BLK_HRS
ReportColumns ==
    /\ rpc = "estimated"
    /\ columns' = [v \in Variants |->
          LET blk == safe_float_conversion(rep_row.BLK_HRS)
              act_inst == calculate_actual_instrument(night_est[v])
              crew == assign_crew_time(v, rep_row.BLK_HRS, rep_row.FLT_HRS,
                                       rep_row.position, OeAbsent)
          IN  [NightTime |-> IF v = "aero" THEN Min(night_est[v], blk)
                             ELSE night_est[v],
               ActInst |-> IF v = "aero" THEN Min(act_inst, blk) ELSE act_inst,
               PIC |-> crew.PIC, SIC |-> crew.SIC, XC |-> crew.XC]]
    /\ rpc' = "columns"
    /\ UNCHANGED <<rep_row, night_est, report>>

\* the renaming of the columns (FLT_HRS is Duration in the FAA mapping and is
\* dropped in the aero one) and round(safe_float_conversion(x), 1) on every
\* float column
ReportFormat ==
    /\ rpc = "columns"
    /\ report' = [v \in Variants |->
          [Duration |-> IF v = "aero" THEN 0
                        ELSE RoundTo(safe_float_conversion(rep_row.FLT_HRS),
                                     UnitsPerDeci),
           hasDuration |-> v # "aero",
           Block |-> RoundTo(safe_float_conversion(rep_row.BLK_HRS), UnitsPerDeci),
           PIC |-> RoundTo(columns[v].PIC, UnitsPerDeci),
           SIC |-> RoundTo(columns[v].SIC, UnitsPerDeci),
           XC |-> RoundTo(columns[v].XC, UnitsPerDeci),
           Night |-> RoundTo(columns[v].NightTime, UnitsPerDeci),
           Inst |-> RoundTo(columns[v].ActInst, UnitsPerDeci)]]
    /\ rpc' = "done"
    /\ UNCHANGED <<rep_row, night_est, columns>>

(***************************************************************************)
(* The composite key of format_logbook_aero.py.  load_oe_data files every  *)
(* OE row under flight number + origin + destination + date;               *)
(* determine_crew_position and assign_crew_time build the same key from    *)
(* the flight row, whose DEPT_DATE main_web has already rewritten with     *)
(* format_date_logbook_aero.  A FLIGHT cell is an int or, when the column  *)
(* has an empty cell, a float; a date text is the ISO form or two numbers  *)
(* separated by slashes.                                                   *)
(***************************************************************************)
Months == 1..12
KeyDates == [day : {2, 12, 13}, month : {2, 12}]
KeyDateFormats == {"iso", "mdy", "dmy"}
KeyFlightCells == [k : {"int", "float"}, n : {7, 123}]
KeyAirports == {"MEM", "HNL"}

\* a calendar date written in a format of the flights file
DateText(fmt, date) ==
    CASE fmt = "iso" -> [k |-> "iso", a |-> date.month, b |-> date.day]
      [] fmt = "mdy" -> [k |-> "slash", a |-> date.month, b |-> date.day]
      [] OTHER -> [k |-> "slash", a |-> date.day, b |-> date.month]

\* format_date_logbook_aero on a date text: parse_date_flexible tries
\* %Y-%m-%d, then %m/%d/%Y, then %d/%m/%Y, and the text is kept when none fits
FormatDateText(text) ==
    IF text.k = "iso" THEN text
    ELSE IF text.a \in Months THEN [k |-> "iso", a |-> text.a, b |-> text.b]
    ELSE IF text.b \in Months THEN [k |-> "iso", a |-> text.b, b |-> text.a]
    ELSE text

\* strptime(FLT_DT, "%d%b%Y").strftime("%Y-%m-%d") of load_oe_data
OeDateKey(date) == [k |-> "iso", a |-> date.month, b |-> date.day]

\* str(FLIGHT).strip().zfill(4): the digits, and ".0" after them for a float
FlightNumberKey(cell) == [digits |-> cell.n, point |-> cell.k = "float"]

\* flight_id
FlightId(flight, org, dest, dateKey) ==
    [flight |-> FlightNumberKey(flight), org |-> org, dest |-> dest, date |-> dateKey]

KeyOeRows == [FLIGHT : KeyFlightCells, ORG : KeyAirports, DEST : {"CAN"},
             FLT_DT : KeyDates, role : {"first_officer"}]
KeyFlightRows == [FLIGHT : KeyFlightCells, ORG : KeyAirports, DEST : {"CAN"},
                 date : KeyDates, fmt : KeyDateFormats]
NoKeyOeRow ==
    [FLIGHT |-> [k |-> "int", n |-> 7], ORG |-> "MEM", DEST |-> "CAN",
     FLT_DT |-> [day |-> 2, month |-> 2], role |-> "first_officer"]
NoKeyFlightRow ==
    [FLIGHT |-> [k |-> "int", n |-> 7], ORG |-> "MEM", DEST |-> "CAN",
     date |-> [day |-> 2, month |-> 2], fmt |-> "iso"]

VARIABLES
    kpc,            \* "start", "done"
    key_oe,         \* the OE row
    key_flight,     \* the flight row: the date it denotes and how it is written
    oe_id,          \* the key load_oe_data filed the OE row under
    flight_id,      \* the key built from the flight row
    key_position    \* what determine_crew_position returned in 'auto' mode

keyVars == <<kpc, key_oe, key_flight, oe_id, flight_id, key_position>>

KeyIdle ==
    /\ kpc = "start" /\ key_oe = NoKeyOeRow /\ key_flight = NoKeyFlightRow
    /\ oe_id = FlightId(NoKeyOeRow.FLIGHT, "MEM", "CAN", OeDateKey(NoKeyOeRow.FLT_DT))
    /\ flight_id = oe_id
    /\ key_position = "captain"

\* load_oe_data on a one-row OE file, then the lookup for one flight row
AeroKeyLookup ==
    /\ kpc = "start"
    /\ \E oe \in KeyOeRows, row \in KeyFlightRows :
          LET oid == FlightId(oe.FLIGHT, oe.ORG, oe.DEST, OeDateKey(oe.FLT_DT))
              fid == FlightId(row.FLIGHT, row.ORG, row.DEST,
                              FormatDateText(DateText(row.fmt, row.date)))
          IN  /\ key_oe' = oe
              /\ key_flight' = row
              /\ oe_id' = oid
              /\ flight_id' = fid
              /\ key_position' =
                    determine_crew_position("captain",
                        IF fid = oid
                        THEN [present |-> TRUE, role |-> oe.role,
                              pic_time |-> OeNone, sic_time |-> OeNone]
                        ELSE OeAbsent)
    /\ kpc' = "done"

(***************************************************************************)
(* load_oe_data, one row of the OE file.  cols are the columns the file    *)
(* has; a time column that is missing reads as 0 (row.get(col, 0)).  The   *)
(* entry is then used as main_web uses it in 'auto' mode.                  *)
(***************************************************************************)
OeColumns == {"SEAT", "ROLE", "PIC_OE", "SIC_OE", "SIC_RFO_OE", "PIC_RFO_OE"}
OeSeats == {"CAPT", "FO", "RFO", "RC", "other"}
OeRoleValues == {"PIC", "SIC", "other"}
OeRowCentis == {0, 150}
OeFileRows ==
    [SEAT : OeSeats, ROLE : OeRoleValues, PIC_OE : OeRowCentis, SIC_OE : OeRowCentis,
     SIC_RFO_OE : OeRowCentis, PIC_RFO_OE : OeRowCentis]
NoOeFileRow ==
    [SEAT |-> "other", ROLE |-> "other", PIC_OE |-> 0, SIC_OE |-> 0,
     SIC_RFO_OE |-> 0, PIC_RFO_OE |-> 0]

\* a role that is not in CREW_POSITION_DISTRIBUTION
UnknownRole == "navigator"

\* 'role': 'captain', the role an entry starts with
DefaultRole == "captain"

OeEntry(role, pic, sic) ==
    [present |-> TRUE, role |-> role, pic_time |-> pic, sic_time |-> sic]

\* x if x > 0 else None
PositiveOrNone(c) == IF c > 0 THEN OeSome(c) ELSE OeNone

\* the SEAT branch
OeEntryFromSeat(cols, row) ==
    CASE row.SEAT = "CAPT" ->
             IF "PIC_OE" \in cols
             THEN OeEntry("captain", PositiveOrNone(row.PIC_OE), OeSome(0))
             ELSE OeEntry("captain", OeNone, OeNone)
      [] row.SEAT = "FO" ->
             IF "SIC_OE" \in cols
             THEN OeEntry("first_officer", OeSome(0), PositiveOrNone(row.SIC_OE))
             ELSE OeEntry("first_officer", OeNone, OeNone)
      [] row.SEAT = "RFO" ->
             OeEntry("relief_first_officer", OeSome(0),
                     IF "SIC_RFO_OE" \in cols THEN PositiveOrNone(row.SIC_RFO_OE)
                     ELSE OeNone)
      [] row.SEAT = "RC" ->
             OeEntry("relief_captain",
                     IF "PIC_RFO_OE" \in cols THEN PositiveOrNone(row.PIC_RFO_OE)
                     ELSE OeNone,
                     OeSome(0))
      [] OTHER -> OeEntry(DefaultRole, OeNone, OeNone)

\* the ROLE branch; a missing PIC_OE / SIC_OE column reads as 0
OeEntryFromRole(cols, row) ==
    CASE row.ROLE = "PIC" ->
             OeEntry("captain",
                     OeSome(IF "PIC_OE" \in cols THEN row.PIC_OE ELSE 0), OeSome(0))
      [] row.ROLE = "SIC" ->
             OeEntry("first_officer", OeSome(0),
                     OeSome(IF "SIC_OE" \in cols THEN row.SIC_OE ELSE 0))
      [] OTHER -> OeEntry(DefaultRole, OeNone, OeNone)

\* the fallback on the plain PIC_OE / SIC_OE columns
OeEntryFallback(cols, row, e) ==
    IF e.pic_time = OeNone /\ e.sic_time = OeNone
    THEN IF "PIC_OE" \in cols /\ e.role = "captain" /\ row.PIC_OE > 0
         THEN OeEntry(e.role, OeSome(row.PIC_OE), OeSome(0))
         ELSE IF "SIC_OE" \in cols /\ e.role = "first_officer" /\ row.SIC_OE > 0
         THEN OeEntry(e.role, OeSome(0), OeSome(row.SIC_OE))
         ELSE e
    ELSE e

\* the entry load_oe_data files for a row
LoadOeEntry(cols, row) ==
    OeEntryFallback(cols, row,
        IF "SEAT" \in cols THEN OeEntryFromSeat(cols, row)
        ELSE IF "ROLE" \in cols THEN OeEntryFromRole(cols, row)
        ELSE OeEntry(DefaultRole, OeNone, OeNone))

VARIABLES
    opc,          \* "start", "done"
    oe_cols,      \* the columns of the OE file
    oe_row,       \* the OE row
    oe_entry,     \* the entry filed for it
    oe_position,  \* the position determine_crew_position gives the flight
    oe_exc        \* "none", or what assign_crew_time raised for that position

oeVars == <<opc, oe_cols, oe_row, oe_entry, oe_position, oe_exc>>

OeIdle ==
    /\ opc = "start" /\ oe_cols = {} /\ oe_row = NoOeFileRow
    /\ oe_entry = OeAbsent /\ oe_position = "captain" /\ oe_exc = "none"

\* load_oe_data on the row, then 'auto' mode for the flight of that row:
\* determine_crew_position and the table lookup that opens assign_crew_time
LoadOeRow ==
    /\ opc = "start" /\ variant # "web"
    /\ \E cols \in SUBSET OeColumns, row \in OeFileRows :
          LET e == LoadOeEntry(cols, row)
              position == determine_crew_position("captain", e)
          IN  /\ oe_cols' = cols
              /\ oe_row' = row
              /\ oe_entry' = e
              /\ oe_position' = position
              /\ oe_exc' = IF position \in Roles THEN "none" ELSE "KeyError"
    /\ opc' = "done"

(***************************************************************************)
(* The upload handler index() of app.py.  Two POST requests are handled by *)
(* two threads of the server; each takes a timestamp of one-second         *)
(* resolution, names its flights, OE and output files after it in the      *)
(* upload folder, and removes them in a finally clause.  A file of the     *)
(* folder is held as the request that last wrote it, 0 when there is none. *)
(* Every os call is a step of its own.                                     *)
(***************************************************************************)
MaxSeconds == 1

Requests == {1, 2}
FileKinds == {"flights", "oe", "output"}
UploadPaths == FileKinds \X (0..MaxSeconds)
NoFile == 0

VARIABLES
    clock,        \* datetime.now(), in seconds
    files,        \* the upload folder: path -> the request that last wrote it
    hpc,          \* per request, the position inside index()
    stamp,        \* per request, the timestamp of its file names
    oe_saved,     \* per request, oe_path is not None
    created,      \* per request, the kinds of file it wrote
    interfered,   \* per request, it read, overwrote or deleted another's file
    outcome       \* per request: "none", "ok", "error", "rejected", "crashed"

uploadVars == <<clock, files, hpc, stamp, oe_saved, created, interfered, outcome>>

UploadIdle ==
    /\ clock = 0
    /\ files = [p \in UploadPaths |-> NoFile]
    /\ hpc = [r \in Requests |-> "idle"]
    /\ stamp = [r \in Requests |-> 0]
    /\ oe_saved = [r \in Requests |-> FALSE]
    /\ created = [r \in Requests |-> {}]
    /\ interfered = [r \in Requests |-> FALSE]
    /\ outcome = [r \in Requests |-> "none"]

PathOf(r, kind) == <<kind, stamp[r]>>
OthersFile(r, p) == files[p] # NoFile /\ files[p] # r

Goto(r, pos) == hpc' = [hpc EXCEPT ![r] = pos]
Finish(r, o) ==
    /\ hpc' = [hpc EXCEPT ![r] = "done"]
    /\ outcome' = [outcome EXCEPT ![r] = o]

\* file.save(path)
SaveFile(r, kind) ==
    LET p == PathOf(r, kind)
    IN  /\ files' = [files EXCEPT ![p] = r]
        /\ created' = [created EXCEPT ![r] = @ \cup {kind}]
        /\ interfered' = [interfered EXCEPT ![r] = @ \/ OthersFile(r, p)]

\* os.unlink(path) on a file that is there
Unlink(r, kind) ==
    LET p == PathOf(r, kind)
    IN  /\ files' = [files EXCEPT ![p] = NoFile]
        /\ interfered' = [interfered EXCEPT ![r] = @ \/ OthersFile(r, p)]

\* a second passes
Tick ==
    /\ clock < MaxSeconds
    /\ clock' = clock + 1
    /\ UNCHANGED <<files, hpc, stamp, oe_saved, created, interfered, outcome>>

\* the checks on the flights file, then timestamp = datetime.now()
HandlerBegin(r) ==
    /\ hpc[r] = "idle"
    /\ \/ /\ Finish(r, "rejected")
          /\ UNCHANGED stamp
       \/ /\ stamp' = [stamp EXCEPT ![r] = clock]
          /\ Goto(r, "save_flights")
          /\ UNCHANGED outcome
    /\ UNCHANGED <<clock, files, oe_saved, created, interfered>>

\* flights_file.save(flights_path)
HandlerSaveFlights(r) ==
    /\ hpc[r] = "save_flights"
    /\ SaveFile(r, "flights")
    /\ Goto(r, "oe")
    /\ UNCHANGED <<clock, stamp, oe_saved, outcome>>

\* the OE file: none, one of an allowed type (saved), or one of another type
\* (os.unlink(flights_path) and return)
HandlerOe(r) ==
    /\ hpc[r] = "oe"
    /\ \/ /\ Goto(r, "process")
          /\ UNCHANGED <<files, oe_saved, created, interfered, outcome>>
       \/ /\ SaveFile(r, "oe")
          /\ oe_saved' = [oe_saved EXCEPT ![r] = TRUE]
          /\ Goto(r, "process")
          /\ UNCHANGED outcome
       \/ /\ IF files[PathOf(r, "flights")] # NoFile
             THEN Unlink(r, "flights") /\ Finish(r, "rejected")
             ELSE Finish(r, "crashed") /\ UNCHANGED <<files, interfered>>
          /\ UNCHANGED <<oe_saved, created>>
    /\ UNCHANGED <<clock, stamp>>

\* process_flight_data(flights_path, output_path, ...): it reads the flights
\* file, raises or writes the output file
HandlerProcess(r) ==
    /\ hpc[r] = "process"
    /\ LET p == PathOf(r, "flights")
       IN  IF files[p] = NoFile
           THEN /\ Goto(r, "chk_flights")
                /\ outcome' = [outcome EXCEPT ![r] = "error"]
                /\ UNCHANGED <<files, created, interfered>>
           ELSE \/ /\ Goto(r, "chk_flights")
                   /\ outcome' = [outcome EXCEPT ![r] = "error"]
                   /\ interfered' = [interfered EXCEPT ![r] = @ \/ OthersFile(r, p)]
                   /\ UNCHANGED <<files, created>>
                \/ /\ Goto(r, "send")
                   /\ files' = [files EXCEPT ![PathOf(r, "output")] = r]
                   /\ created' = [created EXCEPT ![r] = @ \cup {"output"}]
                   /\ interfered' =
                         [interfered EXCEPT ![r] =
                             @ \/ OthersFile(r, p) \/ OthersFile(r, PathOf(r, "output"))]
                   /\ UNCHANGED outcome
    /\ UNCHANGED <<clock, stamp, oe_saved>>

\* send_file(output_path): the file is opened, or the except clause runs
HandlerSend(r) ==
    /\ hpc[r] = "send"
    /\ LET p == PathOf(r, "output")
       IN  /\ outcome' = [outcome EXCEPT ![r] =
                             IF files[p] = NoFile THEN "error" ELSE "ok"]
           /\ interfered' = [interfered EXCEPT ![r] = @ \/ OthersFile(r, p)]
    /\ Goto(r, "chk_flights")
    /\ UNCHANGED <<clock, files, stamp, oe_saved, created>>

NextKind(kind) ==
    CASE kind = "flights" -> "chk_oe"
      [] kind = "oe" -> "chk_output"
      [] OTHER -> "done"

\* finally: if os.path.exists(path) (and, for the OE file, oe_path)
HandlerCheck(r, kind) ==
    /\ hpc[r] = IF kind = "flights" THEN "chk_flights"
                ELSE IF kind = "oe" THEN "chk_oe" ELSE "chk_output"
    /\ IF files[PathOf(r, kind)] # NoFile /\ (kind = "oe" => oe_saved[r])
       THEN Goto(r, IF kind = "flights" THEN "del_flights"
                    ELSE IF kind = "oe" THEN "del_oe" ELSE "del_output")
       ELSE Goto(r, NextKind(kind))
    /\ UNCHANGED <<clock, files, stamp, oe_saved, created, interfered, outcome>>

\* finally: os.unlink(path); FileNotFoundError leaves the handler
HandlerUnlink(r, kind) ==
    /\ hpc[r] = IF kind = "flights" THEN "del_flights"
                ELSE IF kind = "oe" THEN "del_oe" ELSE "del_output"
    /\ IF files[PathOf(r, kind)] # NoFile
       THEN /\ Unlink(r, kind)
            /\ Goto(r, NextKind(kind))
            /\ UNCHANGED outcome
       ELSE /\ Finish(r, "crashed")
            /\ UNCHANGED <<files, interfered>>
    /\ UNCHANGED <<clock, stamp, oe_saved, created>>

(***************************************************************************)
(*                            Specifications                               *)
(***************************************************************************)
vars == <<variant, nightVars, crewVars, landVars, parseVars, batchVars,
          reportVars, positionVars, tzVars, eventVars, keyVars, oeVars,
          uploadVars>>

\* every part of the state at rest
AllIdle ==
    /\ NightIdle /\ CrewIdle /\ LandIdle /\ ParseIdle /\ BatchIdle
    /\ ReportIdle /\ PositionIdle /\ TzIdle /\ EventIdle /\ KeyIdle
    /\ OeIdle /\ UploadIdle

\* estimate_night_time, one flight
NightRest == <<crewVars, landVars, parseVars, batchVars, reportVars, positionVars,
               tzVars, eventVars, keyVars, oeVars, uploadVars>>
NightInit == variant \in Variants /\ AllIdle
NightNext ==
    \/ NightStart /\ UNCHANGED NightRest
    \/ NightSimple /\ UNCHANGED NightRest
    \/ NightLoopStep /\ UNCHANGED NightRest
    \/ NightLoopExit /\ UNCHANGED NightRest
    \/ NightWebStep /\ UNCHANGED NightRest
    \/ NightWebExit /\ UNCHANGED NightRest
SpecNight == NightInit /\ [][NightNext]_vars

\* the per-row functions: a behaviour makes one call of assign_crew_time, of
\* process_landings or of parse_time, or resolves the position of one flight
RowFresh == cpc = "start" /\ lpc = "start" /\ ppc = "start" /\ qpc = "start"
RowInit == variant \in Variants /\ AllIdle
RowNext ==
    \/ RowFresh /\ CrewAssign
       /\ UNCHANGED <<variant, nightVars, landVars, parseVars, batchVars,
                      reportVars, positionVars, tzVars, eventVars, keyVars,
                      oeVars, uploadVars>>
    \/ RowFresh /\ ProcessLandings
       /\ UNCHANGED <<variant, nightVars, crewVars, parseVars, batchVars,
                      reportVars, positionVars, tzVars, eventVars, keyVars,
                      oeVars, uploadVars>>
    \/ RowFresh /\ ParseCall
       /\ UNCHANGED <<variant, nightVars, crewVars, landVars, batchVars,
                      reportVars, positionVars, tzVars, eventVars, keyVars,
                      oeVars, uploadVars>>
    \/ RowFresh /\ ResolvePosition
       /\ UNCHANGED <<variant, nightVars, crewVars, landVars, parseVars,
                      batchVars, reportVars, tzVars, eventVars, keyVars,
                      oeVars, uploadVars>>
SpecRow == RowInit /\ [][RowNext]_vars

\* a batch run
BatchRest == <<variant, nightVars, crewVars, landVars, parseVars, reportVars,
               positionVars, tzVars, eventVars, keyVars, oeVars, uploadVars>>
BatchInit ==
    /\ variant \in Variants /\ NightIdle /\ CrewIdle /\ LandIdle /\ ParseIdle
    /\ ReportIdle /\ PositionIdle /\ TzIdle /\ EventIdle /\ KeyIdle
    /\ OeIdle /\ UploadIdle
    /\ bpc = "start" /\ df \in Batches /\ crew_position \in BatchPositions
    /\ cursor = 0 /\ results = <<>> /\ output = <<>> /\ output_written = FALSE
    /\ batch_exc = "none" /\ rows_processed = 0
BatchNext ==
    \/ FormatLoad /\ UNCHANGED BatchRest
    \/ AeroDateRow /\ UNCHANGED BatchRest
    \/ FormatNightRow /\ UNCHANGED BatchRest
    \/ FormatCrewRow /\ UNCHANGED BatchRest
    \/ FormatWrite /\ UNCHANGED BatchRest
    \/ WebValidate /\ UNCHANGED BatchRest
    \/ WebRow /\ UNCHANGED BatchRest
    \/ WebFinish /\ UNCHANGED BatchRest
SpecBatch == BatchInit /\ [][BatchNext]_vars

\* the cached get_timezone_diff over the life of the process
TzRest == <<variant, nightVars, crewVars, landVars, parseVars, batchVars,
            reportVars, positionVars, eventVars, keyVars, oeVars, uploadVars>>
TzInit == variant = "faa" /\ AllIdle
TzNext ==
    \/ TimezoneDiffCall /\ UNCHANGED TzRest
    \/ ClockPasses /\ UNCHANGED TzRest
SpecTz == TzInit /\ [][TzNext]_vars

\* the output row of one record, the three files side by side
ReportRest == <<variant, nightVars, crewVars, landVars, parseVars, batchVars,
                positionVars, tzVars, eventVars, keyVars, oeVars, uploadVars>>
ReportInit == variant = "faa" /\ AllIdle
ReportNext ==
    \/ ReportEstimate /\ UNCHANGED ReportRest
    \/ ReportColumns /\ UNCHANGED ReportRest
    \/ ReportFormat /\ UNCHANGED ReportRest
SpecReport == ReportInit /\ [][ReportNext]_vars

\* the landing and the takeoff of one row
EventRest == <<variant, nightVars, crewVars, landVars, parseVars, batchVars,
               reportVars, positionVars, tzVars, keyVars, oeVars, uploadVars>>
EventInit == variant \in Variants /\ AllIdle
EventNext == ProcessRowEvents /\ UNCHANGED EventRest
SpecEvents == EventInit /\ [][EventNext]_vars

\* the composite key of one OE row and one flight row
KeyRest == <<variant, nightVars, crewVars, landVars, parseVars, batchVars,
             reportVars, positionVars, tzVars, eventVars, oeVars, uploadVars>>
KeyInit == variant = "aero" /\ AllIdle
KeyNext == AeroKeyLookup /\ UNCHANGED KeyRest
SpecKey == KeyInit /\ [][KeyNext]_vars

\* load_oe_data, one row
OeRest == <<variant, nightVars, crewVars, landVars, parseVars, batchVars,
            reportVars, positionVars, tzVars, eventVars, keyVars, uploadVars>>
OeInit == variant \in {"faa", "aero"} /\ AllIdle
OeNext == LoadOeRow /\ UNCHANGED OeRest
SpecOe == OeInit /\ [][OeNext]_vars

\* the upload handler, two requests
UploadRest == <<variant, nightVars, crewVars, landVars, parseVars, batchVars,
                reportVars, positionVars, tzVars, eventVars, keyVars, oeVars>>
UploadInit == variant = "web" /\ AllIdle
UploadNext ==
    \/ Tick /\ UNCHANGED UploadRest
    \/ \E r \in Requests : HandlerBegin(r) /\ UNCHANGED UploadRest
    \/ \E r \in Requests : HandlerSaveFlights(r) /\ UNCHANGED UploadRest
    \/ \E r \in Requests : HandlerOe(r) /\ UNCHANGED UploadRest
    \/ \E r \in Requests : HandlerProcess(r) /\ UNCHANGED UploadRest
    \/ \E r \in Requests : HandlerSend(r) /\ UNCHANGED UploadRest
    \/ \E r \in Requests, kind \in FileKinds :
          HandlerCheck(r, kind) /\ UNCHANGED UploadRest
    \/ \E r \in Requests, kind \in FileKinds :
          HandlerUnlink(r, kind) /\ UNCHANGED UploadRest
SpecUpload == UploadInit /\ [][UploadNext]_vars

(***************************************************************************)
(*                     Night-time estimator: properties                    *)
(***************************************************************************)
CeilDiv(x, y) == IF x <= 0 THEN 0 ELSE (x + y - 1) \div y
NightDone == npc = "done"

\* C1: whenever estimate_night_time returns, 0 <= night_hours <= flight_hours.
C1_NightWithinFlightHours ==
    NightDone => (0 <= night_hours /\ night_hours <= flt_time)

\* C6: in the simple rule a solar calculation that cannot be made gives 0 and
\* no exception leaves estimate_night_time.
C6_SolarFailureGivesZero ==
    branch = "simple" =>
        /\ npc # "raised"
        /\ (NightDone /\ sun.raises) => night_hours = 0

C23_HalfCreditOneBoundary ==
    LET q == NightQuantum(variant)
        half == RoundTo(flt_time \div 2, q)
        sunriseInside == off_time < sun.sunrise /\ sun.sunrise < on_time
        sunsetInside == off_time < sun.sunset /\ sun.sunset < on_time
    IN  ( /\ NightDone /\ branch = "simple"
          /\ night_hours = half /\ half # 0 /\ half # RoundTo(flt_time, q) )
        => (sunriseInside /\ ~sunsetInside) \/ (sunsetInside /\ ~sunriseInside)

\* C8: the interpolated rule samples [off_time, on_time) every 10 minutes from
\* off_time, credits 10 minutes per night sample, and returns the credited
\* minutes in hours clamped to flight_hours.
C8_FixedStepSampling ==
    branch = "interp" =>
        /\ on_lattice
        /\ NightDone =>
              /\ n_samples = CeilDiv(on_time - off_time, IncrementMinutes)
              /\ n_samples > 0 =>
                    night_hours =
                        Min(RoundTo(n_credited * IncrementMinutes * UnitsPerMinute,
                                    IF variant = "aero" THEN UnitsPerDeci
                                                        ELSE UnitsPerCenti),
                            flt_time)

\* the instants (seconds) format.py's loop samples: off_time, off_time + 10
\* minutes, ... while before on_time
FormatSampleInstants(off, on) ==
    {(off + IncrementMinutes * k) * MinutesPerHour :
        k \in 0..(CeilDiv(on - off, IncrementMinutes) - 1)}

\* the instants (seconds) app.py's loop samples
WebSampleInstants(off, on) ==
    LET segs == TruncDiv(on - off, IncrementMinutes)
    IN  {WebSampleInstant(off, on, i, segs) : i \in 0..(segs - 1)}

\* C25: on the interpolated rule app.py's loop and format.py's loop take the
\* same number of samples at the same instants and credit the same night
\* minutes: a finished run of either file has taken the samples of the other
\* file's loop, and when all its samples are night it returns what the other
\* loop returns when all of its samples are night.
C25_SameSamplesInBothLoops ==
    (NightDone /\ branch = "interp" /\ variant \in {"faa", "web"}) =>
        LET mine == IF variant = "web" THEN WebSampleInstants(off_time, on_time)
                    ELSE FormatSampleInstants(off_time, on_time)
            other == IF variant = "web" THEN FormatSampleInstants(off_time, on_time)
                     ELSE WebSampleInstants(off_time, on_time)
        IN  /\ n_samples = Cardinality(other)
            /\ mine = other
            /\ n_credited = n_samples =>
                  night_hours = InterpResult(variant,
                                             IncrementMinutes * Cardinality(other),
                                             flt_time)

\* C27: the loop of the interpolated rule ends after
\* ceil((on_time - off_time) / 10 minutes) steps; when on_time <= off_time it
\* takes no step, nothing is raised and night_hours is 0.
C27_LoopEndsAfterCeilSteps ==
    branch = "interp" =>
        /\ n_samples <= CeilDiv(on_time - off_time, IncrementMinutes)
        /\ exc = "none"
        /\ NightDone =>
              /\ n_samples = CeilDiv(on_time - off_time, IncrementMinutes)
              /\ on_time <= off_time => (n_samples = 0 /\ night_hours = 0)

\* C9: in the interpolated rule a sample whose solar calculation raises
\* credits nothing and does not stop the loop: no exception leaves the
\* function, every sample of the loop is still taken, and the value returned
\* is the minutes of the night samples alone, in hours (rounded to the file's
\* places) and clamped to flight_hours.
C9_FailedSampleSkipped ==
    (branch = "interp" /\ n_failed > 0) =>
        /\ npc \in {"interp", "done"}
        /\ exc = "none"
        /\ n_credited + n_failed <= n_samples
        /\ NightDone =>
              /\ n_samples = IF variant = "web"
                             THEN TruncDiv(on_time - off_time, IncrementMinutes)
                             ELSE CeilDiv(on_time - off_time, IncrementMinutes)
              /\ night_hours =
                    Min(RoundTo(n_credited * IncrementMinutes * UnitsPerMinute,
                                IF variant = "aero" THEN UnitsPerDeci
                                                    ELSE UnitsPerCenti),
                        flt_time)

\* a flight whose loop met a failing sample, a night sample and a day sample
C9_Witness ==
    /\ NightDone /\ branch = "interp"
    /\ n_failed > 0 /\ n_credited > 0
    /\ n_samples > n_failed + n_credited
    /\ night_hours > 0

(***************************************************************************)
(*                       Crew time: properties                             *)
(***************************************************************************)
\* C2: after the base computation and after an OE override, pic_time and
\* sic_time are each <= block_hours; first_officer with block_hours 5.0 and an
\* OE sic override of 6.0 gets sic_time 5.0.
C2_CrewTimeWithinBlock ==
    cpc = "done" =>
        LET block_hours == safe_float_conversion(crew_row.BLK_HRS)
        IN  /\ crew_times.PIC <= block_hours
            /\ crew_times.SIC <= block_hours
            /\ ( /\ crew_row.position = "first_officer"
                 /\ crew_row.BLK_HRS = NumCell(500)
                 /\ crew_row.oe.present
                 /\ crew_row.oe.sic_time = OeSome(600) )
               => crew_times.SIC = 500 * UnitsPerCenti

\* C13: with no OE override for the flight assign_crew_time gives
\* pic_time = block_hours * pic_fraction, sic_time = block_hours * sic_fraction
\* and cross_country_time = block_hours, the fractions being 1.0/0.0 for
\* captain, 0.0/1.0 for first_officer, 0.0/0.5 for relief_first_officer and
\* 0.5/0.0 for relief_captain.
C13_BaseCrewTimes ==
    (cpc = "done" /\ ~crew_row.oe.present) =>
        LET block_hours == safe_float_conversion(crew_row.BLK_HRS)
            role == crew_row.position
        IN  /\ crew_times.PIC = CASE role = "captain" -> block_hours
                                   [] role = "relief_captain" -> block_hours \div 2
                                   [] OTHER -> 0
            /\ crew_times.SIC = CASE role = "first_officer" -> block_hours
                                   [] role = "relief_first_officer" -> block_hours \div 2
                                   [] OTHER -> 0
            /\ crew_times.XC = block_hours

\* a relief captain on a 1.5 hour block without OE data: 0.75 hours of PIC
C13_Witness ==
    /\ cpc = "done" /\ ~crew_row.oe.present
    /\ crew_row.position = "relief_captain" /\ crew_row.BLK_HRS = NumCell(150)
    /\ crew_times.PIC = 75 * UnitsPerCenti /\ crew_times.SIC = 0
    /\ crew_times.XC = 150 * UnitsPerCenti

\* C14: under position 'auto' the role of a flight is the role its OE entry
\* records when the flight has one and 'captain' otherwise, in every file that
\* takes an OE file.
C14_AutoRoleFromOe ==
    (qpc = "done" /\ pos_request.position = "auto") =>
        flight_position = IF pos_request.oe.present THEN pos_request.oe.role
                          ELSE "captain"

(***************************************************************************)
(*                        Landings: properties                             *)
(***************************************************************************)
\* C3: process_landings returns (1,0) or (0,1) when the LANDING value equals 1
\* or '1', and (0,0) for every other LANDING value, whatever the airport, the
\* times and the solar results are.
C3_LandingExactlyOne ==
    lpc = "done" =>
        IF \/ landing_val.k \in {"int", "float"} /\ landing_val.n = 1
           \/ landing_val.k = "str" /\ landing_val.s = "1"
        THEN landings \in {<<1, 0>>, <<0, 1>>}
        ELSE landings = <<0, 0>>

\* a performed landing classified as a night landing
C3_Witness ==
    /\ lpc = "done" /\ landing_val = LandingCell("int", 1, "")
    /\ ~land_caught /\ ~land_sun.raises
    /\ landing_time >= land_sun.sunset + TwilightMinutes
    /\ landings = <<0, 1>>

(***************************************************************************)
(*                  Landing and takeoff of a row: properties               *)
(***************************************************************************)
EventsDone == epc = "done"
EventPerformed ==
    \/ ev_row.LANDING.k \in {"int", "float"} /\ ev_row.LANDING.n = 1
    \/ ev_row.LANDING.k = "str" /\ ev_row.LANDING.s = "1"

\* the event reached the comparison with sunrise and sunset
LandingClassified ==
    /\ EventPerformed
    /\ parse_time(variant, ev_row.DEPT_DATE, ev_row.ON).kind # "raise"
    /\ get_airport_data(ev_row.DEST).found /\ ~ev_sun.dest.raises
TakeoffClassified ==
    /\ EventPerformed /\ ev_out.hasTakeoffs
    /\ parse_time(variant, ev_row.DEPT_DATE, ev_row.OFF).kind # "raise"
    /\ get_airport_data(ev_row.ORG).found /\ ~ev_sun.org.raises

\* C21: when the airport of a performed landing or takeoff cannot be resolved
\* or the solar calculation fails for it, the event is credited as day, (1,0),
\* and no exception leaves process_landings / process_takeoffs.
C21_UnclassifiableIsDay ==
    EventsDone =>
        /\ ev_out.exc = "none"
        /\ ( /\ EventPerformed
             /\ ~get_airport_data(ev_row.DEST).found \/ ev_sun.dest.raises )
           => ev_out.landings = <<1, 0>>
        /\ ( /\ EventPerformed /\ ev_out.hasTakeoffs
             /\ ~get_airport_data(ev_row.ORG).found \/ ev_sun.org.raises )
           => ev_out.takeoffs = <<1, 0>>

\* a landing at an unknown airport and a takeoff for which the solar library
\* raises, both credited as day
C21_Witness ==
    /\ EventsDone /\ variant = "aero" /\ EventPerformed
    /\ ev_row.DEPT_DATE = "mdy"
    /\ ev_row.DEST = "ZZZ" /\ ev_row.ORG = "MEM" /\ ev_sun.org.raises
    /\ ev_out.landings = <<1, 0>> /\ ev_out.takeoffs = <<1, 0>>

\* C22: process_takeoffs credits exactly one takeoff, (1,0) or (0,1), when
\* LANDING is 1 or '1', and (0,0) otherwise; the takeoffs credited for a row
\* are as many as the landings credited for it.
C22_TakeoffExactlyOne ==
    (EventsDone /\ ev_out.hasTakeoffs) =>
        /\ IF EventPerformed THEN ev_out.takeoffs \in {<<1, 0>>, <<0, 1>>}
           ELSE ev_out.takeoffs = <<0, 0>>
        /\ ev_out.takeoffs[1] + ev_out.takeoffs[2]
              = ev_out.landings[1] + ev_out.landings[2]

\* a night takeoff and a day landing on the same row
C22_Witness ==
    /\ EventsDone /\ ev_out.hasTakeoffs /\ EventPerformed
    /\ ev_out.takeoffs = <<0, 1>> /\ ev_out.landings = <<1, 0>>

\* C24: a classified landing or takeoff is a night event exactly when its
\* instant is >= sunset + 30 minutes or <= sunrise at its airport, and a day
\* event when it is strictly after sunrise and strictly before sunset + 30.
C24_NightAfterTwilightOrBeforeSunrise ==
    EventsDone =>
        /\ LandingClassified =>
              LET night == \/ ev_time.on >= ev_sun.dest.sunset + TwilightMinutes
                           \/ ev_time.on <= ev_sun.dest.sunrise
              IN  ev_out.landings = IF night THEN <<0, 1>> ELSE <<1, 0>>
        /\ TakeoffClassified =>
              LET night == \/ ev_time.off >= ev_sun.org.sunset + TwilightMinutes
                           \/ ev_time.off <= ev_sun.org.sunrise
              IN  ev_out.takeoffs = IF night THEN <<0, 1>> ELSE <<1, 0>>

\* a landing exactly 30 minutes after sunset and a takeoff exactly at sunrise,
\* both night events
C24_Witness ==
    /\ EventsDone /\ LandingClassified /\ TakeoffClassified
    /\ ev_time.on = ev_sun.dest.sunset + TwilightMinutes
    /\ ev_time.off = ev_sun.org.sunrise
    /\ ev_out.landings = <<0, 1>> /\ ev_out.takeoffs = <<0, 1>>

(***************************************************************************)
(*                        parse_time: properties                           *)
(***************************************************************************)
\* C10: parse_time never raises: for every date and time, a date that is
\* unparseable or no string included, it returns an instant.
C10_ParseTimeNeverRaises ==
    ppc = "done" => parse_out.kind # "raise"

\* the dates the variant's parse_time can parse
ParseableDate(v, d) ==
    IF v = "aero" THEN d \in {"iso", "mdy", "dmy"} ELSE d = "mdy"

\* C11: when the time value is None, empty, '.' or not a string and the date is
\* parseable, parse_time returns 12:00 UTC on that date.
C11_MalformedTimeGivesNoon ==
    ( /\ ppc = "done"
      /\ parse_in.time_str.k \in {"none", "empty", "dot", "nonstr"}
      /\ ParseableDate(variant, parse_in.date_str) )
    => parse_out = At("date", NoonHour * MinutesPerHour)

\* OFF = '.', DEPT_DATE = "06/01/2024": noon of that date
C11_Witness ==
    /\ ppc = "done"
    /\ parse_in.time_str.k = "dot" /\ parse_in.date_str = "mdy"
    /\ parse_out = At("date", NoonHour * MinutesPerHour)

(***************************************************************************)
(*                         Batch run: properties                           *)
(***************************************************************************)
BatchEnded == bpc \in {"done", "failed"}
MalformedKinds == {"bad_date", "nonstr_date", "bad_time", "unknown_airport",
                   "solar_fail", "no_origin"}
Written == {output[i] : i \in 1..Len(output)}

\* C4: a run whose crew position is neither one of the four roles nor 'auto'
\* ends with the invalid-role error and writes no output file.
C4_InvalidRoleFails ==
    (BatchEnded /\ crew_position \notin Roles \cup {"auto"}) =>
        /\ bpc = "failed"
        /\ batch_exc = "InvalidRole"
        /\ ~output_written

\* C5: a batch with a valid crew position and a single malformed row does not
\* halt: when the run ends every other row is in the output.
C5_MalformedRowNeverHalts ==
    ( /\ BatchEnded
      /\ crew_position \in Roles \cup {"auto"}
      /\ Cardinality({i \in 1..Len(df) : df[i] \in MalformedKinds}) = 1 )
    => \A i \in 1..Len(df) : df[i] \notin MalformedKinds => i \in Written

\* the row of this kind is written when the file processes it on its own
RowWrittenAlone(v, kind, dst) ==
    LET r == BatchRow(kind)
        date_str == IF r.DEPT_DATE = "nonstr" THEN "none" ELSE r.DEPT_DATE
    IN  IF v = "web"
        THEN /\ r.ORG # "" /\ r.DEST # "" /\ date_str # "none"
             /\ NightRowException(v, r, date_str, dst) = "none"
        ELSE /\ v = "aero" => format_date_logbook_aero(r.DEPT_DATE) # "TypeError"
             /\ NightRowException(v, r, PassDate(v, r), dst) = "none"

\* C17: records are processed independently: what a run produces for a record
\* does not depend on the other records of the batch, so a record that is
\* written when processed on its own is written in every batch that holds it.
C17_RecordsIndependent ==
    (BatchEnded /\ crew_position \in Roles \cup {"auto"}) =>
        \A i \in 1..Len(df) :
            (\A dst \in BOOLEAN : RowWrittenAlone(variant, df[i], dst))
                => i \in Written

\* C18: the count process_flight_data returns is the number of rows written to
\* the output; skipped rows are not in it.
C18_CountIsRowsWritten ==
    (variant = "web" /\ bpc = "done") => rows_processed = Len(output)

(***************************************************************************)
(*                       Composite key: properties                         *)
(***************************************************************************)
KeyDone == kpc = "done"

\* C26: in format_logbook_aero.py an OE row and a flight row for the same
\* flight number, origin, destination and calendar date get the same key, so
\* the override is applied to that flight; and it is applied to no flight
\* with another origin, destination or date.
C26_SameFlightSameKey ==
    KeyDone =>
        LET sameFlight == /\ key_oe.FLIGHT.n = key_flight.FLIGHT.n
                          /\ key_oe.ORG = key_flight.ORG
                          /\ key_oe.DEST = key_flight.DEST
                          /\ key_oe.FLT_DT = key_flight.date
            applied == key_position = key_oe.role
        IN  /\ sameFlight => (oe_id = flight_id /\ applied)
            /\ applied => /\ key_oe.ORG = key_flight.ORG
                          /\ key_oe.DEST = key_flight.DEST
                          /\ key_oe.FLT_DT = key_flight.date

(***************************************************************************)
(*                        load_oe_data: properties                         *)
(***************************************************************************)
\* C28: every entry load_oe_data builds has one of the four roles and never
\* has both pic_time > 0 and sic_time > 0; so in 'auto' mode the role looked
\* up for a flight is in CREW_POSITION_DISTRIBUTION and assign_crew_time
\* raises no invalid-role error.
C28_OeEntryWellFormed ==
    opc = "done" =>
        /\ oe_entry.role \in Roles
        /\ ~( /\ oe_entry.pic_time.some /\ oe_entry.pic_time.v > 0
              /\ oe_entry.sic_time.some /\ oe_entry.sic_time.v > 0 )
        /\ oe_position = oe_entry.role
        /\ oe_exc = "none"

\* a row with an unrecognised seat in a file that has the PIC_OE and SIC_OE
\* columns, both positive: the entry is a captain with the PIC time alone
C28_Witness ==
    /\ opc = "done"
    /\ {"SEAT", "PIC_OE", "SIC_OE"} \subseteq oe_cols
    /\ oe_row.SEAT = "other" /\ oe_row.PIC_OE > 0 /\ oe_row.SIC_OE > 0
    /\ oe_entry.role = "captain"
    /\ oe_entry.pic_time.some /\ oe_entry.pic_time.v > 0
    /\ oe_entry.sic_time = OeSome(0)

(***************************************************************************)
(*                       Upload handler: properties                        *)
(***************************************************************************)
InFlight(r) == hpc[r] \notin {"idle", "done"}

\* C29: when index() finishes handling a POST request (download sent,
\* processing error, or OE file of a rejected type), none of the flights, OE
\* and output files it created for the request is left in the upload folder.
C29_HandlerLeavesNoFiles ==
    [][ \A r \in Requests :
          (hpc[r] # "done" /\ hpc'[r] = "done") =>
              \A kind \in created'[r] : files'[<<kind, stamp'[r]>>] = NoFile ]_vars

\* C30: two requests handled at the same time never use the same temporary
\* path: no request reads, overwrites or deletes a file of the other.
C30_NoSharedTempPaths ==
    /\ \A r \in Requests : ~interfered[r]
    /\ (InFlight(1) /\ InFlight(2)) => stamp[1] # stamp[2]

(***************************************************************************)
(*                        Output row: properties                           *)
(***************************************************************************)
ReportDone == rpc = "done"

\* C12: the duration figure produced for a flight is flight_hours times the
\* duration fraction of the role (1.0 for captain and first_officer, 0.5 for
\* relief_first_officer and relief_captain), at the one place of the output.
C12_DurationByRole ==
    ReportDone =>
        \A v \in {"faa", "web"} :
            LET flight_hours == safe_float_conversion(rep_row.FLT_HRS)
                expected == IF rep_row.position \in {"captain", "first_officer"}
                            THEN flight_hours ELSE flight_hours \div 2
            IN  report[v].Duration = RoundTo(expected, UnitsPerDeci)

\* C19: for the same flight record the night hours in the row written by
\* format.py and in the row written by format_logbook_aero.py are equal.
C19_NightSameInBothFormats ==
    ReportDone => report["faa"].Night = report["aero"].Night

\* C20: in every output row the instrument time is 50% of the night time of
\* that row, exactly or at the one place of the output.
C20_InstrumentHalfOfReportedNight ==
    ReportDone =>
        \A v \in Variants :
            \/ 2 * report[v].Inst = report[v].Night
            \/ report[v].Inst = RoundTo(report[v].Night \div 2, UnitsPerDeci)

\* C20 as it holds: the instrument time of an output row is 50% of the night
\* time estimated for the flight, taken before the output rounding (and in
\* format_logbook_aero.py capped at the block hours), then rounded to one
\* place; in format.py and app.py twice the reported instrument time is
\* therefore within 0.1 h of the reported night time.
C20_InstrumentHalfOfNightEstimate ==
    ReportDone =>
        \A v \in Variants :
            LET blk == safe_float_conversion(rep_row.BLK_HRS)
                half == night_est[v] \div 2
                d == 2 * report[v].Inst - report[v].Night
            IN  /\ report[v].Inst =
                       RoundTo(IF v = "aero" THEN Min(half, blk) ELSE half,
                               UnitsPerDeci)
                /\ v # "aero" => (d <= UnitsPerDeci /\ 0 - d <= UnitsPerDeci)

\* a row whose reported instrument time is not half of its reported night time
C20_Witness ==
    /\ ReportDone
    /\ \E v \in Variants :
          /\ report[v].Inst > 0
          /\ 2 * report[v].Inst # report[v].Night
          /\ report[v].Inst # RoundTo(report[v].Night \div 2, UnitsPerDeci)

(***************************************************************************)
(*                   Timezone difference: properties                       *)
(***************************************************************************)
\* C15: after any sequence of calls, get_timezone_diff(a, b) and
\* get_timezone_diff(b, a) return the same value.
C15_TimezoneDiffSymmetric ==
    \A p \in TzPairs :
        CachedTimezoneDiff(p) = CachedTimezoneDiff(<<p[2], p[1]>>)

\* C16: once a value is stored for the unordered pair {a, b}, every later call
\* with (a, b) or (b, a) is answered from the cache with that value and
\* computes nothing, whatever was looked up in between.
C16_MemoizedPerUnorderedPair ==
    [][ tz_calls' = tz_calls + 1 =>
          LET p == tz_call'
              q == <<p[2], p[1]>>
          IN  (tz_cache[p] # NotCached \/ tz_cache[q] # NotCached) =>
                  /\ tz_hit'
                  /\ tz_result' = IF tz_cache[p] # NotCached THEN tz_cache[p]
                                   ELSE tz_cache[q] ]_vars

=============================================================================
